---- MODULE Spec2Model ----
(***************************************************************************)
(* A model of lipi's concurrent batch pipeline: TranscribeWithChunks of    *)
(* the Gemini and OpenAI transcribers and TranslateWithConcurrency of the  *)
(* Gemini, Anthropic and OpenAI translators.  One run of one of the two    *)
(* functions is modelled, goroutine by goroutine: the workers, the feeder, *)
(* the goroutine that closes the result channel, and the caller's own      *)
(* goroutine that collects, sorts and merges.                              *)
(***************************************************************************)
EXTENDS Integers, Sequences, FiniteSets, Bags, TLC

(* ------------------------------ bounds -------------------------------- *)

\* the longest chunk list given to TranscribeWithChunks
MaxChunks == 3
\* the longest item list given to TranslateWithConcurrency
MaxItems == 3
\* the largest concurrency argument
MaxConcurrency == 2
\* the largest configured Options.BatchSize
MaxBatchSize == 2
\* the most units of a run checked for termination
MaxLiveUnits == 2

(* ------------------------- program constants -------------------------- *)

\* "if concurrency <= 0 { concurrency = 3 }"
DefaultConcurrency == 3
\* "const DefaultBatchSize = 50"
DefaultBatchSize == 50

(* --------------------------- values ----------------------------------- *)

\* a nil error, a nil pointer (a nil slice is the empty sequence)
Nil == [tag |-> "nil"]

\* fmt.Errorf("<what> %d failed: %w", index, err)
WrapError(what, index, err) ==
    [tag |-> "wrapped", what |-> what, index |-> index, inner |-> err]

\* an error created by fmt.Errorf without a unit index
BaseError(msg) == [tag |-> "error", msg |-> msg]

RECURSIVE Flatten(_)
\* append(all, r...) for every r of a sequence of sequences, in order
Flatten(ss) ==
    IF ss = <<>> THEN <<>> ELSE Head(ss) \o Flatten(Tail(ss))

Reverse(s) == [i \in 1..Len(s) |-> s[Len(s) + 1 - i]]

Min(a, b) == IF a < b THEN a ELSE b

(* sort.Slice(x, func(i, j) bool { return x[i].Index < x[j].Index }).      *)
(* For slices of at most 12 elements Go's pdqsort is the insertion sort   *)
(* below: an element moves left while it is strictly less than its        *)
(* predecessor.                                                            *)
RECURSIVE InsertByIndex(_, _)
InsertByIndex(sorted, x) ==
    IF sorted = <<>> THEN <<x>>
    ELSE IF x.Index < sorted[Len(sorted)].Index
         THEN Append(InsertByIndex(SubSeq(sorted, 1, Len(sorted) - 1), x),
                     sorted[Len(sorted)])
         ELSE Append(sorted, x)

RECURSIVE SortFrom(_, _)
SortFrom(done, rest) ==
    IF rest = <<>> THEN done
    ELSE SortFrom(InsertByIndex(done, Head(rest)), Tail(rest))

SortByIndex(s) == SortFrom(<<>>, s)

(* ------------------------------ inputs -------------------------------- *)

\* audio.ChunkInfo of the chunk with the given Index (Path left out)
Chunk(index) ==
    [Index |-> index, StartTime |-> 10 * index, EndTime |-> 10 * index + 10]

\* the chunk lists given to TranscribeWithChunks: pairwise distinct Index
\* values, in ascending or in descending order
ChunkLists ==
    UNION {{[i \in 1..n |-> Chunk(i - 1)], [i \in 1..n |-> Chunk(n - i)]} :
           n \in 0..MaxChunks}

\* runTranslate's items: items[i] = {Index: i, Text: entry.Text}
ItemLists ==
    {[i \in 1..n |-> [Index |-> i - 1, Text |-> "src"]] : n \in 0..MaxItems}

(* ------------------------------ state --------------------------------- *)

VARIABLES
    kind,             \* "transcribe" (TranscribeWithChunks) or "translate"
    chunks,           \* the chunks argument
    items,            \* the items argument
    optBatchSize,     \* t.options.BatchSize
    concurrency,      \* the concurrency argument
    phase,            \* where the calling goroutine is
    ctxDone,          \* the context the run works under is cancelled
    callerCancelled,  \* the caller cancelled the context it passed in
    workers,          \* the worker goroutines: a bag of [pc, unit, res]
    fed,              \* how many units the feeder has sent on workChan
    workChanClosed,   \* the feeder has returned (defer close(workChan))
    resultChan,       \* the buffered result channel
    resultChanClosed, \* wg.Wait() returned and resultChan was closed
    results,          \* the collector's results slice
    firstErr,         \* the collector's firstErr
    ret,              \* what the function returned
    spawned,          \* how many worker goroutines were started
    calls,            \* per unit, how many provider calls were begun
    resp,             \* per unit, what the provider answered
    out,              \* per unit, what TranscribeChunk/translateBatch returned
    received,         \* the results in the order the collector received them
    call,             \* one application of a pure function: its arguments
                      \* and, once applied, its value
    opened,           \* the bytes of the subtitle file that was opened
    subFile,          \* the subtitle.File that Open returned
    written,          \* the file that Write wrote: [exists, bytes]
    lastOp,           \* the last call on the document: [op, index, text, err]
    prevOp,           \* the call before it
    nops              \* the number of calls made on the document

vars ==
    <<kind, chunks, items, optBatchSize, concurrency, phase, ctxDone,
      callerCancelled, workers, fed, workChanClosed, resultChan,
      resultChanClosed, results, firstErr, ret, spawned, calls, resp, out,
      received, call, opened, subFile, written, lastOp, prevOp, nops>>

\* the variables of the subtitle document
docVars == <<opened, subFile, written, lastOp, prevOp, nops>>

\* what no step of a run changes: its arguments, the variable of the
\* pure-function applications, and the subtitle document
inputVars == <<kind, chunks, items, optBatchSize, concurrency, call, docVars>>

(* --------------------------- pure functions --------------------------- *)

\* func (t *GeminiTranslator) batchSize() int
batchSize(opt) == IF opt > 0 THEN opt ELSE DefaultBatchSize

\* a batching loop that leaves out a last batch shorter than batchSize
RECURSIVE BatchesFromDropPartial(_, _, _)
BatchesFromDropPartial(its, i, size) ==
    IF i + size > Len(its) THEN <<>>
    ELSE <<SubSeq(its, i + 1, i + size)>>
         \o BatchesFromDropPartial(its, i + size, size)

\* the batching loop of TranslateWithConcurrency:
\*   for i := 0; i < len(items); i += batchSize { batches = append(...) }
RECURSIVE BatchesFrom(_, _, _)
BatchesFrom(its, i, size) ==
    IF i >= Len(its) THEN <<>>
    ELSE <<SubSeq(its, i + 1, Min(i + size, Len(its)))>>
         \o BatchesFrom(its, i + size, size)

Batches == BatchesFrom(items, 0, batchSize(optBatchSize))

\* the units of work of the run
NUnits == IF kind = "transcribe" THEN Len(chunks) ELSE Len(Batches)

Units == 1..NUnits

\* the index a unit's result carries: chunk.Index, or the batch's number
UnitIndex(p) == IF kind = "transcribe" THEN chunks[p].Index ELSE p - 1

\* "if concurrency <= 0 { concurrency = 3 }"
EffectiveConcurrency(c) == IF c <= 0 THEN DefaultConcurrency ELSE c

\* a spawning loop that starts one worker per unit
NumWorkersPerUnit == NUnits

\* the number of worker goroutines the spawning loop starts:
\*   transcribe:  for i := 0; i < concurrency; i++
\*   translate:   for i := 0; i < concurrency && i < len(batches); i++
NumWorkers ==
    IF kind = "transcribe" THEN EffectiveConcurrency(concurrency)
    ELSE Min(EffectiveConcurrency(concurrency), NUnits)

(* The worker goroutines are anonymous and run the same closure: they are *)
(* kept as a bag of worker states.  pc is the worker's position ("select",*)
(* "check", "ready", "calling", "send", "exited"), unit the position in   *)
(* the unit list of the unit it received (0: none), res the result of its *)
(* call until it is sent.                                                 *)
IdleWorker == [pc |-> "select", unit |-> 0, res |-> Nil]

ExitedWorker == [pc |-> "exited", unit |-> 0, res |-> Nil]

\* the workers bag after one worker in state ws moved to state ws2
Moved(ws, ws2) == (workers (-) SetToBag({ws})) (+) SetToBag({ws2})

\* the number of workers at the given position
CountAt(pc) ==
    BagCardinality([ws \in {x \in BagToSet(workers) : x.pc = pc} |->
                      CopiesIn(ws, workers)])

(* ------------------------- the provider calls ------------------------- *)

\* what t.Transcribe(ctx, chunk.Path) can return for a chunk: an error, or
\* a Result whose segments carry chunk-local times
TranscribeResponses ==
    { BaseError("transcription failed"),
      [tag |-> "result",
       Segments |-> <<[StartTime |-> 0, EndTime |-> 4, Text |-> "a"],
                      [StartTime |-> 4, EndTime |-> 9, Text |-> "b"]>>] }

\* a TranscribeChunk that offsets the start of a segment but not its end
TranscribeChunkStartOnly(chunk, r) ==
    IF r.tag = "error" THEN [Segments |-> <<>>, Error |-> r]
    ELSE [Segments |->
            [i \in 1..Len(r.Segments) |->
                [StartTime |-> r.Segments[i].StartTime + chunk.StartTime,
                 EndTime |-> r.Segments[i].EndTime,
                 Text |-> r.Segments[i].Text]],
          Error |-> Nil]

\* func (t *GeminiTranscriber) TranscribeChunk(ctx, chunk)
TranscribeChunk(chunk, r) ==
    IF r.tag = "error" THEN [Segments |-> <<>>, Error |-> r]
    ELSE [Segments |->
            [i \in 1..Len(r.Segments) |->
                [StartTime |-> r.Segments[i].StartTime + chunk.StartTime,
                 EndTime |-> r.Segments[i].EndTime + chunk.StartTime,
                 Text |-> r.Segments[i].Text]],
          Error |-> Nil]

\* the translation of every item of a batch, index for index
Translated(batch) ==
    [i \in 1..Len(batch) |-> [Index |-> batch[i].Index, Text |-> "dst"]]

\* what the provider call of translateBatch comes back with in a run: an
\* API error, or a response text from which extractTranslationResults
\* recovers the batch's translations (in order or in reverse order) or one
\* result too many
TranslateResponses(batch) ==
    { BaseError("translation failed") }
    \cup { [tag |-> "text", recovered |-> rs] :
             rs \in { Translated(batch),
                      Reverse(Translated(batch)),
                      Translated(batch) \o
                        <<[Index |-> batch[Len(batch)].Index + 1,
                           Text |-> "dst"]>> } }

\* a parseResponse that does not compare the count with the batch size
parseResponseNoCount(r, expectedCount) ==
    IF r.recovered = <<>>
    THEN [Results |-> <<>>,
          Error |-> BaseError("failed to parse JSON response")]
    ELSE [Results |-> r.recovered, Error |-> Nil]

\* func (t *GeminiTranslator) parseResponse(result, expectedCount), from
\* the call of extractTranslationResults on
parseResponse(r, expectedCount) ==
    IF r.recovered = <<>>
    THEN [Results |-> <<>>,
          Error |-> BaseError("failed to parse JSON response")]
    ELSE IF Len(r.recovered) # expectedCount
    THEN [Results |-> <<>>,
          Error |-> [tag |-> "error", msg |-> "expected %d results, got %d",
                     expected |-> expectedCount, got |-> Len(r.recovered)]]
    ELSE [Results |-> r.recovered, Error |-> Nil]

\* func (t *GeminiTranslator) translateBatch(ctx, items)
translateBatch(batch, r) ==
    IF r.tag = "error" THEN [Results |-> <<>>, Error |-> r]
    ELSE parseResponse(r, Len(batch))

\* the provider's possible answers for the unit at position p
Responses(p) ==
    IF kind = "transcribe" THEN TranscribeResponses
    ELSE TranslateResponses(Batches[p])

\* the worker's call for the unit at position p, given the provider's
\* answer: (segments, err) or (results, err), as the record it is sent in
ProcessUnit(p, r) ==
    IF kind = "transcribe"
    THEN LET c == TranscribeChunk(chunks[p], r)
         IN  [Index |-> UnitIndex(p), Payload |-> c.Segments, Error |-> c.Error]
    ELSE LET b == translateBatch(Batches[p], r)
         IN  [Index |-> UnitIndex(p), Payload |-> b.Results, Error |-> b.Error]

(* ------------------------- collecting and merging --------------------- *)

\* a collector that keeps the last error it receives instead of the first
CollectLastErr(fe, result) ==
    IF result.Error # Nil
    THEN WrapError(IF kind = "transcribe" THEN "chunk" ELSE "batch",
                   result.Index, result.Error)
    ELSE fe

\* the loop body of "for result := range resultChan": the new firstErr
CollectFirstErr(fe, result) ==
    IF result.Error # Nil /\ fe = Nil
    THEN WrapError(IF kind = "transcribe" THEN "chunk" ELSE "batch",
                   result.Index, result.Error)
    ELSE fe

\* the loop body of "for result := range resultChan": the new results
CollectResults(rs, result) ==
    IF result.Error = Nil THEN Append(rs, result) ELSE rs

\* a merge that forgets to sort the collected results by chunk index
MergeSegmentsUnsorted(rs) ==
    [Segments |-> Flatten([i \in 1..Len(rs) |-> rs[i].Payload]),
     Duration |-> chunks[Len(chunks)].EndTime]

\* TranscribeWithChunks after the collection loop: sort by chunk index,
\* merge, and take the duration from the last chunk of the argument
MergeSegments(rs) ==
    [Segments |->
        Flatten([i \in 1..Len(rs) |-> SortByIndex(rs)[i].Payload]),
     Duration |-> chunks[Len(chunks)].EndTime]

\* a merge that forgets the final sort of the merged results
MergeTranslationsNoFinalSort(rs) ==
    Flatten([i \in 1..Len(rs) |-> SortByIndex(rs)[i].Payload])

\* TranslateWithConcurrency after the collection loop: sort by batch
\* index, merge, and sort the merged results by result index
MergeTranslations(rs) ==
    SortByIndex(Flatten([i \in 1..Len(rs) |-> SortByIndex(rs)[i].Payload]))

\* "return nil, firstErr": a nil *Result, a nil []TranslationResult
NilResult == IF kind = "transcribe" THEN Nil ELSE <<>>

\* a return that hands out the results collected so far beside the error
PoolReturnPartial(fe, rs) ==
    [result |-> IF kind = "transcribe" THEN MergeSegments(rs)
                ELSE MergeTranslations(rs),
     err |-> fe]

\* what the function returns once resultChan is closed and drained
PoolReturn(fe, rs) ==
    IF fe # Nil THEN [result |-> NilResult, err |-> fe]
    ELSE [result |-> IF kind = "transcribe" THEN MergeSegments(rs)
                     ELSE MergeTranslations(rs),
          err |-> Nil]

\* "return &Result{}, nil" and "return []TranslationResult{}, nil"
EmptyReturn ==
    [result |-> IF kind = "transcribe"
                THEN [Segments |-> <<>>, Duration |-> 0] ELSE <<>>,
     err |-> Nil]

(* ---------------------- no subtitle document -------------------------- *)

\* the zero value of a call on a document
NoOp == [op |-> "none", index |-> 0, text |-> "", err |-> Nil]

\* no subtitle file has been opened
NoDoc ==
    /\ opened = ""
    /\ subFile = [format |-> "none"]
    /\ written = [exists |-> FALSE, bytes |-> ""]
    /\ lastOp = NoOp
    /\ prevOp = NoOp
    /\ nops = 0

(* ------------------------------ Init ---------------------------------- *)

Init ==
    /\ kind \in {"transcribe", "translate"}
    /\ concurrency \in 0..MaxConcurrency
    /\ \/ kind = "transcribe" /\ chunks \in ChunkLists /\ items = <<>>
          /\ optBatchSize = 0
       \/ kind = "translate" /\ chunks = <<>> /\ items \in ItemLists
          /\ optBatchSize \in 0..MaxBatchSize
    /\ phase = "entry"
    /\ ctxDone = FALSE
    /\ callerCancelled = FALSE
    /\ workers = EmptyBag
    /\ fed = 0
    /\ workChanClosed = FALSE
    /\ resultChan = <<>>
    /\ resultChanClosed = FALSE
    /\ results = <<>>
    /\ firstErr = Nil
    /\ ret = Nil
    /\ spawned = 0
    /\ calls = [p \in Units |-> 0]
    /\ resp = [p \in Units |-> Nil]
    /\ out = [p \in Units |-> Nil]
    /\ received = <<>>
    /\ call = Nil
    /\ NoDoc

(* ------------------- the calling goroutine: entry --------------------- *)

poolVars ==
    <<workers, fed, workChanClosed, resultChan, resultChanClosed, results,
      firstErr, spawned, received>>

\* a function without the early return: the pool is set up for no unit
StartPoolOnEmpty ==
    /\ phase = "entry"
    /\ NUnits = 0
    /\ phase' = "collect"
    /\ spawned' = EffectiveConcurrency(concurrency)
    /\ workers' = [ws \in {IdleWorker} |-> EffectiveConcurrency(concurrency)]
    /\ UNCHANGED <<inputVars, ctxDone, callerCancelled, fed, workChanClosed,
                   resultChan, resultChanClosed, results, firstErr, ret,
                   calls, resp, out, received>>

\* "if len(chunks) == 0 { return &Result{}, nil }"
ReturnEmpty ==
    /\ phase = "entry"
    /\ NUnits = 0
    /\ phase' = "returned"
    /\ ret' = EmptyReturn
    /\ UNCHANGED <<inputVars, ctxDone, callerCancelled, poolVars, calls, resp,
                   out>>

\* "if len(batches) == 1 { return t.translateBatch(ctx, batches[0]) }":
\* the call begins
StartInline ==
    /\ phase = "entry"
    /\ kind = "translate"
    /\ NUnits = 1
    /\ phase' = "inline"
    /\ calls' = [calls EXCEPT ![1] = @ + 1]
    /\ UNCHANGED <<inputVars, ctxDone, callerCancelled, poolVars, ret, resp,
                   out>>

\* an inline path that treats its batch as the pool does: the error
\* wrapped with the batch number, the results sorted by index
InlineReturnAsPool ==
    /\ phase = "inline"
    /\ \E r \in Responses(1) :
         /\ resp' = [resp EXCEPT ![1] = r]
         /\ out' = [out EXCEPT ![1] = ProcessUnit(1, r)]
         /\ ret' = PoolReturn(CollectFirstErr(Nil, ProcessUnit(1, r)),
                              CollectResults(<<>>, ProcessUnit(1, r)))
    /\ phase' = "returned"
    /\ UNCHANGED <<inputVars, ctxDone, callerCancelled, poolVars, calls>>

\* the inline call returns, and the function returns what it returned
InlineReturn ==
    /\ phase = "inline"
    /\ \E r \in Responses(1) :
         /\ resp' = [resp EXCEPT ![1] = r]
         /\ out' = [out EXCEPT ![1] = ProcessUnit(1, r)]
         /\ ret' = [result |-> translateBatch(Batches[1], r).Results,
                    err |-> translateBatch(Batches[1], r).Error]
    /\ phase' = "returned"
    /\ UNCHANGED <<inputVars, ctxDone, callerCancelled, poolVars, calls>>

\* context.WithCancel, the two channels, the worker goroutines, the feeder
\* and the goroutine that waits for the workers
StartPool ==
    /\ phase = "entry"
    /\ NUnits > 0
    /\ kind = "translate" => NUnits > 1
    /\ phase' = "collect"
    /\ spawned' = NumWorkers
    /\ workers' = [ws \in {IdleWorker} |-> NumWorkers]
    /\ UNCHANGED <<inputVars, ctxDone, callerCancelled, fed, workChanClosed,
                   resultChan, resultChanClosed, results, firstErr, ret,
                   calls, resp, out, received>>

(* --------------------------- the workers ------------------------------ *)

\* select { case <-ctx.Done(): return
WorkerCtxDone(ws) ==
    /\ ws.pc = "select"
    /\ ctxDone
    /\ workers' = Moved(ws, ExitedWorker)
    /\ UNCHANGED <<inputVars, phase, ctxDone, callerCancelled, fed,
                   workChanClosed, resultChan, resultChanClosed, results,
                   firstErr, ret, spawned, calls, resp, out, received>>

\* case chunk, ok := <-workChan: if !ok { return }
WorkerChanClosed(ws) ==
    /\ ws.pc = "select"
    /\ workChanClosed
    /\ workers' = Moved(ws, ExitedWorker)
    /\ UNCHANGED <<inputVars, phase, ctxDone, callerCancelled, fed,
                   workChanClosed, resultChan, resultChanClosed, results,
                   firstErr, ret, spawned, calls, resp, out, received>>

\* a feeder that passes over the unit after the one it hands over
FeedWorkerSkipping(ws) ==
    /\ ~workChanClosed
    /\ fed < NUnits
    /\ ws.pc = "select"
    /\ fed' = Min(fed + 2, NUnits)
    /\ workers' = Moved(ws, [pc |-> "check", unit |-> fed + 1, res |-> Nil])
    /\ UNCHANGED <<inputVars, phase, ctxDone, callerCancelled,
                   workChanClosed, resultChan, resultChanClosed, results,
                   firstErr, ret, spawned, calls, resp, out, received>>

\* the feeder's "case workChan <- chunk" meets a worker's
\* "case chunk, ok := <-workChan" (workChan is unbuffered).  A select
\* chooses among the cases that can proceed, so the hand-over stays
\* possible while ctx.Done() is ready too: the check that follows it is
\* what stops the worker then.
FeedWorker(ws) ==
    /\ ~workChanClosed
    /\ fed < NUnits
    /\ ws.pc = "select"
    /\ fed' = fed + 1
    /\ workers' = Moved(ws, [pc |-> "check", unit |-> fed + 1, res |-> Nil])
    /\ UNCHANGED <<inputVars, phase, ctxDone, callerCancelled,
                   workChanClosed, resultChan, resultChanClosed, results,
                   firstErr, ret, spawned, calls, resp, out, received>>

\* a worker that does not look at the context after receiving a unit
WorkerCheckNoCancel(ws) ==
    /\ ws.pc = "check"
    /\ workers' = Moved(ws, [ws EXCEPT !.pc = "ready"])
    /\ UNCHANGED <<inputVars, phase, ctxDone, callerCancelled, fed,
                   workChanClosed, resultChan, resultChanClosed, results,
                   firstErr, ret, spawned, calls, resp, out, received>>

\* "if ctx.Err() != nil { return }"
WorkerCheck(ws) ==
    /\ ws.pc = "check"
    /\ workers' = Moved(ws, IF ctxDone THEN ExitedWorker
                            ELSE [ws EXCEPT !.pc = "ready"])
    /\ UNCHANGED <<inputVars, phase, ctxDone, callerCancelled, fed,
                   workChanClosed, resultChan, resultChanClosed, results,
                   firstErr, ret, spawned, calls, resp, out, received>>

\* the call of t.TranscribeChunk / t.translateBatch begins
WorkerCall(ws) ==
    /\ ws.pc = "ready"
    /\ workers' = Moved(ws, [ws EXCEPT !.pc = "calling"])
    /\ calls' = [calls EXCEPT ![ws.unit] = @ + 1]
    /\ UNCHANGED <<inputVars, phase, ctxDone, callerCancelled, fed,
                   workChanClosed, resultChan, resultChanClosed, results,
                   firstErr, ret, spawned, resp, out, received>>

\* the call returns (segments, err), and "if err != nil { cancel() }"
WorkerCallReturn(ws) ==
    /\ ws.pc = "calling"
    /\ \E r \in Responses(ws.unit) :
         LET res == ProcessUnit(ws.unit, r)
         IN  /\ resp' = [resp EXCEPT ![ws.unit] = r]
             /\ out' = [out EXCEPT ![ws.unit] = res]
             /\ workers' = Moved(ws, [ws EXCEPT !.pc = "send", !.res = res])
             /\ ctxDone' = (ctxDone \/ res.Error # Nil)
    /\ UNCHANGED <<inputVars, phase, callerCancelled, fed, workChanClosed,
                   resultChan, resultChanClosed, results, firstErr, ret,
                   spawned, calls, received>>

\* a worker that stores its result in the collector's slice and error
\* slot itself instead of sending it
WorkerStore(ws) ==
    /\ ws.pc = "send"
    /\ results' = CollectResults(results, ws.res)
    /\ firstErr' = CollectFirstErr(firstErr, ws.res)
    /\ received' = Append(received, ws.res)
    /\ workers' = Moved(ws, IdleWorker)
    /\ UNCHANGED <<inputVars, phase, ctxDone, callerCancelled, fed,
                   workChanClosed, resultChan, resultChanClosed, ret,
                   spawned, calls, resp, out>>

\* "resultChan <- chunkResult{...}": resultChan has room for len(chunks)
WorkerSend(ws) ==
    /\ ws.pc = "send"
    /\ Len(resultChan) < NUnits
    /\ resultChan' = Append(resultChan, ws.res)
    /\ workers' = Moved(ws, IdleWorker)
    /\ UNCHANGED <<inputVars, phase, ctxDone, callerCancelled, fed,
                   workChanClosed, resultChanClosed, results, firstErr, ret,
                   spawned, calls, resp, out, received>>

(* ---------------------------- the feeder ------------------------------ *)

\* the feeder's "case <-ctx.Done(): return", and its deferred
\* close(workChan)
FeederStop ==
    /\ spawned > 0
    /\ ~workChanClosed
    /\ fed < NUnits
    /\ ctxDone
    /\ workChanClosed' = TRUE
    /\ UNCHANGED <<inputVars, phase, ctxDone, callerCancelled, workers, fed,
                   resultChan, resultChanClosed, results, firstErr, ret,
                   spawned, calls, resp, out, received>>

\* the feeder's loop ends after the last unit: deferred close(workChan)
FeederFinish ==
    /\ spawned > 0
    /\ ~workChanClosed
    /\ fed = NUnits
    /\ workChanClosed' = TRUE
    /\ UNCHANGED <<inputVars, phase, ctxDone, callerCancelled, workers, fed,
                   resultChan, resultChanClosed, results, firstErr, ret,
                   spawned, calls, resp, out, received>>

(* ------------------- go func() { wg.Wait(); close(resultChan) }() ----- *)

\* a wg.Wait() that does not wait (wg.Add called inside the goroutines)
CloseResultsEarly ==
    /\ spawned > 0
    /\ ~resultChanClosed
    /\ resultChanClosed' = TRUE
    /\ UNCHANGED <<inputVars, phase, ctxDone, callerCancelled, workers, fed,
                   workChanClosed, resultChan, results, firstErr, ret,
                   spawned, calls, resp, out, received>>

CloseResults ==
    /\ spawned > 0
    /\ ~resultChanClosed
    /\ CountAt("exited") = spawned
    /\ resultChanClosed' = TRUE
    /\ UNCHANGED <<inputVars, phase, ctxDone, callerCancelled, workers, fed,
                   workChanClosed, resultChan, results, firstErr, ret,
                   spawned, calls, resp, out, received>>

(* ----------------- the calling goroutine: the collector --------------- *)

\* one iteration of "for result := range resultChan"
Collect ==
    /\ phase = "collect"
    /\ resultChan # <<>>
    /\ LET result == Head(resultChan)
       IN  /\ firstErr' = CollectFirstErr(firstErr, result)
           /\ ctxDone' = (ctxDone \/ (result.Error # Nil /\ firstErr = Nil))
           /\ results' = CollectResults(results, result)
           /\ received' = Append(received, result)
    /\ resultChan' = Tail(resultChan)
    /\ UNCHANGED <<inputVars, phase, callerCancelled, workers, fed,
                   workChanClosed, resultChanClosed, ret, spawned, calls,
                   resp, out>>

\* the range loop ends (resultChan closed and drained); the function
\* returns, and its deferred cancel() runs
Return ==
    /\ phase = "collect"
    /\ resultChan = <<>>
    /\ resultChanClosed
    /\ ret' = PoolReturn(firstErr, results)
    /\ phase' = "returned"
    /\ ctxDone' = TRUE
    /\ UNCHANGED <<inputVars, callerCancelled, workers, fed, workChanClosed,
                   resultChan, resultChanClosed, results, firstErr, spawned,
                   calls, resp, out, received>>

(* ------------------------------ the caller ---------------------------- *)

\* the caller cancels the context it passed in, while the run is going on
CallerCancel ==
    /\ phase \in {"inline", "collect"}
    /\ ~callerCancelled
    /\ callerCancelled' = TRUE
    /\ ctxDone' = TRUE
    /\ UNCHANGED <<inputVars, phase, workers, fed, workChanClosed,
                   resultChan, resultChanClosed, results, firstErr, ret,
                   spawned, calls, resp, out, received>>

(* ------------------------------ Next ---------------------------------- *)

SomeWorkerCtxDone == \E ws \in BagToSet(workers) : WorkerCtxDone(ws)

SomeWorkerChanClosed == \E ws \in BagToSet(workers) : WorkerChanClosed(ws)

SomeFeedWorker == \E ws \in BagToSet(workers) : FeedWorker(ws)

SomeWorkerCheck == \E ws \in BagToSet(workers) : WorkerCheck(ws)

SomeWorkerCall == \E ws \in BagToSet(workers) : WorkerCall(ws)

SomeWorkerCallReturn == \E ws \in BagToSet(workers) : WorkerCallReturn(ws)

SomeWorkerSend == \E ws \in BagToSet(workers) : WorkerSend(ws)

\* every step of the run itself
RunStep ==
    \/ ReturnEmpty
    \/ StartInline
    \/ InlineReturn
    \/ StartPool
    \/ SomeWorkerCtxDone
    \/ SomeWorkerChanClosed
    \/ SomeFeedWorker
    \/ SomeWorkerCheck
    \/ SomeWorkerCall
    \/ SomeWorkerCallReturn
    \/ SomeWorkerSend
    \/ FeederStop
    \/ FeederFinish
    \/ CloseResults
    \/ Collect
    \/ Return

Next == RunStep \/ CallerCancel

Spec == Init /\ [][Next]_vars

\* the runs of at most MaxLiveUnits units
InitLive == Init /\ NUnits <= MaxLiveUnits

\* Go schedules every runnable goroutine and, by the hypothesis of the
\* termination property, every provider call returns: the run does not stop
\* while one of its own steps is possible.  Nothing forces the caller to
\* cancel.
FairSpec == InitLive /\ [][Next]_vars /\ WF_vars(RunStep)

(* ------------- translateBatch applied to one provider answer ---------- *)

\* no run is going on
NoRun ==
    /\ kind = "translate" /\ chunks = <<>> /\ items = <<>>
    /\ optBatchSize = 0 /\ concurrency = 0
    /\ phase = "idle" /\ ctxDone = FALSE /\ callerCancelled = FALSE
    /\ workers = EmptyBag /\ fed = 0 /\ workChanClosed = FALSE
    /\ resultChan = <<>> /\ resultChanClosed = FALSE /\ results = <<>>
    /\ firstErr = Nil /\ ret = Nil /\ spawned = 0 /\ calls = <<>>
    /\ resp = <<>> /\ out = <<>> /\ received = <<>>

runVars ==
    <<kind, chunks, items, optBatchSize, concurrency, phase, ctxDone,
      callerCancelled, workers, fed, workChanClosed, resultChan,
      resultChanClosed, results, firstErr, ret, spawned, calls, resp, out,
      received>>

\* every result list extractTranslationResults can recover for a batch, up
\* to one result more than the batch has items: any indices, in any order
RecoveredLists(batch) ==
    UNION {[1..k -> {[Index |-> i, Text |-> "dst"] : i \in 0..Len(batch)}] :
           k \in 0..(Len(batch) + 1)}

\* every outcome of translateBatch's provider call for a batch
BatchResponses(batch) ==
    {BaseError("translation failed")}
    \cup {[tag |-> "text", recovered |-> rs] : rs \in RecoveredLists(batch)}

InitBatch ==
    /\ NoRun
    /\ NoDoc
    /\ call \in {[fn |-> "translateBatch", batch |-> b, response |-> r,
                   returned |-> FALSE, value |-> Nil] :
                     b \in ItemLists \ {<<>>},
                     r \in UNION {BatchResponses(x) : x \in ItemLists \ {<<>>}}}

\* translateBatch(ctx, batch) with the provider answering call.response
ApplyTranslateBatch ==
    /\ call.fn = "translateBatch"
    /\ ~call.returned
    /\ call' = [call EXCEPT !.returned = TRUE,
                            !.value = translateBatch(call.batch, call.response)]
    /\ UNCHANGED <<runVars, docVars>>

SpecBatch == InitBatch /\ [][ApplyTranslateBatch]_vars

(* ------------- TranscribeChunk applied to one chunk -------------------- *)

\* the most segments a provider result has in these applications
MaxSegments == 2

\* subtitle.Segment values with chunk-local times, as t.Transcribe returns
LocalSegments ==
    {[StartTime |-> s, EndTime |-> e, Text |-> t] :
        s \in 0..1, e \in 1..2, t \in {"a", "b c"}}

\* what t.Transcribe(ctx, chunk.Path) can return: an error, or a Result
\* with any list of up to MaxSegments segments
ChunkResponses ==
    {BaseError("transcription failed")}
    \cup {[tag |-> "result", Segments |-> ss] :
            ss \in UNION {[1..n -> LocalSegments] : n \in 0..MaxSegments}}

InitChunk ==
    /\ NoRun
    /\ NoDoc
    /\ call \in {[fn |-> "TranscribeChunk", chunk |-> Chunk(c),
                   response |-> r, returned |-> FALSE, value |-> Nil] :
                     c \in 0..(MaxChunks - 1), r \in ChunkResponses}

\* TranscribeChunk(ctx, chunk) with t.Transcribe answering call.response
ApplyTranscribeChunk ==
    /\ call.fn = "TranscribeChunk"
    /\ ~call.returned
    /\ call' = [call EXCEPT !.returned = TRUE,
                            !.value = TranscribeChunk(call.chunk, call.response)]
    /\ UNCHANGED <<runVars, docVars>>

SpecChunk == InitChunk /\ [][ApplyTranscribeChunk]_vars

(* ------------------------ response recovery --------------------------- *)

(* A response text is a sequence of tokens: the brackets "[" "]" "{" "}",  *)
(* an object key together with its colon ("text:"), a string literal       *)
(* ("'hi'"), a number ("1"), and words of prose ("so").  The commas        *)
(* between elements are left out of the alphabet: a value is malformed     *)
(* here when a closing bracket is missing or when a token stands where no  *)
(* value, or no key, can start.                                            *)
KeyTokens ==
    {"segments:", "transcript:", "transcription:", "results:", "translations:",
     "data:", "items:", "note:", "text:", "start:", "end:", "index:"}

StrTokens == {"'hi'", "'yo'", "''"}

NumTokens == {"0", "1"}

\* the Go value of a string literal and of a number
StrVal(tok) == IF tok = "'hi'" THEN "hi" ELSE IF tok = "'yo'" THEN "yo" ELSE ""

NumVal(tok) == IF tok = "1" THEN 1 ELSE 0

\* a decoded JSON value (json.RawMessage): t is "array", "object", "string"
\* or "number"; kids are an array's elements or an object's members, a
\* member carrying its key
JValue(t, kids, str, num) ==
    [t |-> t, key |-> "", kids |-> kids, str |-> str, num |-> num]

NoValue == JValue("none", <<>>, "", 0)

DecodeFailed == [ok |-> FALSE, val |-> NoValue, next |-> 0]

\* decoder.Decode(&raw) on text[i:]: the first JSON value of the text that
\* starts at position i, and the position after it
RECURSIVE DecodeValue(_, _), DecodeElems(_, _, _), DecodeMembers(_, _, _)
DecodeValue(text, i) ==
    IF i > Len(text) THEN DecodeFailed
    ELSE IF text[i] = "[" THEN DecodeElems(text, i + 1, <<>>)
    ELSE IF text[i] = "{" THEN DecodeMembers(text, i + 1, <<>>)
    ELSE IF text[i] \in StrTokens
    THEN [ok |-> TRUE, val |-> JValue("string", <<>>, StrVal(text[i]), 0),
          next |-> i + 1]
    ELSE IF text[i] \in NumTokens
    THEN [ok |-> TRUE, val |-> JValue("number", <<>>, "", NumVal(text[i])),
          next |-> i + 1]
    ELSE DecodeFailed

DecodeElems(text, i, acc) ==
    IF i > Len(text) THEN DecodeFailed
    ELSE IF text[i] = "]"
    THEN [ok |-> TRUE, val |-> JValue("array", acc, "", 0), next |-> i + 1]
    ELSE LET d == DecodeValue(text, i)
         IN  IF d.ok THEN DecodeElems(text, d.next, Append(acc, d.val))
             ELSE DecodeFailed

DecodeMembers(text, i, acc) ==
    IF i > Len(text) THEN DecodeFailed
    ELSE IF text[i] = "}"
    THEN [ok |-> TRUE, val |-> JValue("object", acc, "", 0), next |-> i + 1]
    ELSE IF text[i] \in KeyTokens
    THEN LET d == DecodeValue(text, i + 1)
         IN  IF d.ok
             THEN DecodeMembers(text, d.next,
                                Append(acc, [d.val EXCEPT !.key = text[i]]))
             ELSE DecodeFailed
    ELSE DecodeFailed

\* the member of an object that a Go map or struct ends up with for a key:
\* the last one with that key
HasMember(obj, key) == \E i \in 1..Len(obj.kids) : obj.kids[i].key = key

Member(obj, key) ==
    LET last == CHOOSE i \in 1..Len(obj.kids) :
                    /\ obj.kids[i].key = key
                    /\ \A j \in (i + 1)..Len(obj.kids) : obj.kids[j].key # key
    IN  obj.kids[last]

\* the record kinds: transcriptSegment {start, end, text} and
\* TranslationResult {index, text}; a field a kind does not have stays 0
NumKeys(rk) == IF rk = "segment" THEN {"start:", "end:"} ELSE {"index:"}

StrField(obj, key) == IF HasMember(obj, key) THEN Member(obj, key).str ELSE ""

NumField(rk, obj, key) ==
    IF key \in NumKeys(rk) /\ HasMember(obj, key) THEN Member(obj, key).num
    ELSE 0

\* json.Unmarshal(raw, &records): raw must be an array of objects whose
\* known fields have the field's type; unknown fields are ignored
UnmarshalRecords(rk, raw) ==
    IF /\ raw.t = "array"
       /\ \A i \in 1..Len(raw.kids) :
             /\ raw.kids[i].t = "object"
             /\ \A j \in 1..Len(raw.kids[i].kids) :
                   LET m == raw.kids[i].kids[j]
                   IN  /\ m.key = "text:" => m.t = "string"
                       /\ m.key \in NumKeys(rk) => m.t = "number"
    THEN [ok |-> TRUE,
          recs |-> [i \in 1..Len(raw.kids) |->
                      [Text |-> StrField(raw.kids[i], "text:"),
                       Start |-> NumField(rk, raw.kids[i], "start:"),
                       End |-> NumField(rk, raw.kids[i], "end:"),
                       Index |-> NumField(rk, raw.kids[i], "index:")]]]
    ELSE [ok |-> FALSE, recs |-> <<>>]

\* a validation that looks at the first record only
validateFirstRecord(rk, recs) ==
    /\ Len(recs) > 0
    /\ \/ recs[1].Text # ""
       \/ rk = "segment" /\ (recs[1].Start > 0 \/ recs[1].End > 0)

\* validateSegments and validateResults
validateRecords(rk, recs) ==
    \E i \in 1..Len(recs) :
        \/ recs[i].Text # ""
        \/ rk = "segment" /\ (recs[i].Start > 0 \/ recs[i].End > 0)

\* transcriptWrapperKeys, and wrapperKeys of tryExtractResults
WrapperKeys(rk) ==
    IF rk = "segment"
    THEN <<"segments:", "transcript:", "transcription:", "results:", "data:">>
    ELSE <<"results:", "translations:", "data:", "items:">>

\* a field that unmarshals into records that validate
GoodField(rk, v) ==
    UnmarshalRecords(rk, v).ok
        /\ validateRecords(rk, UnmarshalRecords(rk, v).recs)

NotExtracted == [ok |-> FALSE, recs |-> <<>>]

\* a tryExtract that takes any field that validates, known key or not
tryExtractAnyField(rk, raw) ==
    IF GoodField(rk, raw) THEN {UnmarshalRecords(rk, raw)}
    ELSE IF raw.t # "object" THEN {NotExtracted}
    ELSE LET any == {UnmarshalRecords(rk, raw.kids[i]) :
                        i \in {j \in 1..Len(raw.kids) :
                                 /\ raw.kids[j] = Member(raw, raw.kids[j].key)
                                 /\ GoodField(rk, raw.kids[j])}}
         IN  IF any # {} THEN any ELSE {NotExtracted}

\* tryExtractSegments / tryExtractResults: the outcomes the call can have.
\* The last loop ranges over a Go map, whose iteration order is not fixed:
\* every field that validates is a possible outcome of it.
tryExtract(rk, raw) ==
    IF GoodField(rk, raw) THEN {UnmarshalRecords(rk, raw)}
    ELSE IF raw.t # "object" THEN {NotExtracted}
    ELSE LET keys == WrapperKeys(rk)
             hits == {k \in 1..Len(keys) :
                        /\ HasMember(raw, keys[k])
                        /\ GoodField(rk, Member(raw, keys[k]))}
             any == {UnmarshalRecords(rk, raw.kids[i]) :
                        i \in {j \in 1..Len(raw.kids) :
                                 /\ raw.kids[j] = Member(raw, raw.kids[j].key)
                                 /\ GoodField(rk, raw.kids[j])}}
         IN  IF hits # {}
             THEN {UnmarshalRecords(rk,
                     Member(raw, keys[CHOOSE k \in hits :
                                        \A h \in hits : k <= h]))}
             ELSE IF any # {} THEN any
             ELSE {NotExtracted}

NoValidJSON == [ok |-> FALSE, recs |-> <<>>]

\* a scan that gives up at the first value that decodes, valid or not
RECURSIVE extractFromFirstDecoded(_, _, _)
extractFromFirstDecoded(rk, text, i) ==
    IF i > Len(text) THEN {NoValidJSON}
    ELSE IF text[i] # "[" /\ text[i] # "{"
    THEN extractFromFirstDecoded(rk, text, i + 1)
    ELSE IF ~DecodeValue(text, i).ok
    THEN extractFromFirstDecoded(rk, text, i + 1)
    ELSE {IF o.ok /\ Len(o.recs) > 0 THEN o ELSE NoValidJSON :
            o \in tryExtract(rk, DecodeValue(text, i).val)}

\* the loop of extractTranscriptSegments / extractTranslationResults from
\* position i on: the values the function can return
RECURSIVE extractFrom(_, _, _)
extractFrom(rk, text, i) ==
    IF i > Len(text) THEN {NoValidJSON}
    ELSE IF text[i] # "[" /\ text[i] # "{" THEN extractFrom(rk, text, i + 1)
    ELSE IF ~DecodeValue(text, i).ok THEN extractFrom(rk, text, i + 1)
    ELSE LET outs == tryExtract(rk, DecodeValue(text, i).val)
             accepted == {o \in outs : o.ok /\ Len(o.recs) > 0}
         IN  IF accepted = outs THEN accepted
             ELSE accepted \cup extractFrom(rk, text, i + 1)

extractRecords(rk, text) == extractFrom(rk, text, 1)

\* the most records an array of a response has, and the most tokens a
\* response is cut short by
MaxRecords == 2

MaxCut == 1

\* the records a model writes: with a text, with an empty text and no
\* times, with an empty text and a start time, and with a number as text
RecordTokens ==
    { <<"{", "text:", "'hi'", "}">>,
      <<"{", "start:", "0", "text:", "''", "}">>,
      <<"{", "start:", "1", "text:", "''", "}">>,
      <<"{", "text:", "1", "}">> }

ArrayTokens(rs) == <<"[">> \o Flatten(rs) \o <<"]">>

WrapTokens(key, toks) == <<"{", key>> \o toks \o <<"}">>

\* the first JSON value of a response: nothing, an array of records, or
\* the array wrapped under a known key, under an unknown key, or two deep
FirstValues ==
    {<<>>}
    \cup UNION {{ArrayTokens(rs), WrapTokens("data:", ArrayTokens(rs)),
                 WrapTokens("note:", ArrayTokens(rs)),
                 WrapTokens("note:", WrapTokens("data:", ArrayTokens(rs)))} :
                  rs \in UNION {[1..n -> RecordTokens] : n \in 0..MaxRecords}}

\* what follows it: nothing, an empty array, or an array of one record
SecondValues ==
    {<<>>, <<"[", "]">>, <<"[", "{", "text:", "'yo'", "}", "]">>}

Prose == {<<>>, <<"so">>}

CutShort(toks, k) == SubSeq(toks, 1, Len(toks) - k)

ResponseTexts ==
    {pre \o CutShort(first, k) \o second \o post :
        pre \in Prose, first \in FirstValues, k \in 0..MaxCut,
        second \in SecondValues, post \in Prose}

InitExtract ==
    /\ NoRun
    /\ NoDoc
    /\ call \in {[fn |-> "extract", rk |-> rk, text |-> text,
                   returned |-> FALSE, value |-> NoValidJSON] :
                     rk \in {"segment", "translation"},
                     text \in ResponseTexts}

\* extractTranscriptSegments(text) / extractTranslationResults(text)
ApplyExtract ==
    /\ call.fn = "extract"
    /\ ~call.returned
    /\ \E v \in extractRecords(call.rk, call.text) :
         call' = [call EXCEPT !.returned = TRUE, !.value = v]
    /\ UNCHANGED <<runVars, docVars>>

SpecExtract == InitExtract /\ [][ApplyExtract]_vars

\* tryExtract applied to one decoded object: objects of up to MaxMembers
\* fields, under keys known to one record kind, to both and to none, each
\* an array that validates, one that does not, or a string
MaxMembers == 2

FieldKeys == {"segments:", "results:", "data:", "items:", "note:"}

FieldValues ==
    { <<"[", "{", "text:", "'hi'", "}", "]">>,
      <<"[", "{", "text:", "'yo'", "}", "]">>,
      <<"[", "{", "text:", "''", "}", "]">>,
      <<"'hi'">> }

RECURSIVE MemberTokens(_)
MemberTokens(n) ==
    IF n = 0 THEN {<<>>}
    ELSE {<<k>> \o v \o rest :
             k \in FieldKeys, v \in FieldValues, rest \in MemberTokens(n - 1)}

ObjectTexts ==
    {<<"{">> \o ms \o <<"}">> : ms \in UNION {MemberTokens(n) : n \in 0..MaxMembers}}

InitTryExtract ==
    /\ NoRun
    /\ NoDoc
    /\ call \in {[fn |-> "tryExtract", rk |-> rk, text |-> text,
                   returned |-> FALSE, value |-> NotExtracted] :
                     rk \in {"segment", "translation"}, text \in ObjectTexts}

\* tryExtractSegments(raw) / tryExtractResults(raw) for the decoded object
ApplyTryExtract ==
    /\ call.fn = "tryExtract"
    /\ ~call.returned
    /\ \E v \in tryExtract(call.rk, DecodeValue(call.text, 1).val) :
         call' = [call EXCEPT !.returned = TRUE, !.value = v]
    /\ UNCHANGED <<runVars, docVars>>

SpecTryExtract == InitTryExtract /\ [][ApplyTryExtract]_vars

(* ------------------------------ strings ------------------------------- *)

(* A Go string is a TLA+ string, which is a sequence of characters: Len,   *)
(* \o and SubSeq apply to it. The operators of this section are the        *)
(* functions of Go's strings, strconv, bufio and fmt packages that the     *)
(* subtitle parsers and writers call, over ASCII text.                     *)
CharAt(s, i) == SubSeq(s, i, i)

\* s[i:] with i counted from 1
From(s, i) == SubSeq(s, i, Len(s))

\* s[a-1:b] cut off at the end of s
Slice(s, a, b) == IF a > Len(s) THEN "" ELSE SubSeq(s, a, Min(b, Len(s)))

\* unicode.IsSpace for the characters that occur
IsSpace(c) == c \in {" ", "\t", "\r", "\n"}

IsDigit(c) == c \in {"0", "1", "2", "3", "4", "5", "6", "7", "8", "9"}

DigitVal(c) ==
    CASE c = "0" -> 0 [] c = "1" -> 1 [] c = "2" -> 2 [] c = "3" -> 3
      [] c = "4" -> 4 [] c = "5" -> 5 [] c = "6" -> 6 [] c = "7" -> 7
      [] c = "8" -> 8 [] c = "9" -> 9

DigitChar(d) == CharAt("0123456789", d + 1)

\* strings.TrimSpace
RECURSIVE TrimLeft(_)
TrimLeft(s) ==
    IF Len(s) > 0 /\ IsSpace(CharAt(s, 1)) THEN TrimLeft(From(s, 2)) ELSE s

RECURSIVE TrimRight(_)
TrimRight(s) ==
    IF Len(s) > 0 /\ IsSpace(CharAt(s, Len(s)))
    THEN TrimRight(SubSeq(s, 1, Len(s) - 1)) ELSE s

TrimSpace(s) == TrimRight(TrimLeft(s))

\* strings.HasPrefix, HasSuffix, TrimPrefix, TrimSuffix
HasPrefix(s, p) == Len(s) >= Len(p) /\ SubSeq(s, 1, Len(p)) = p

HasSuffix(s, p) ==
    Len(s) >= Len(p) /\ SubSeq(s, Len(s) - Len(p) + 1, Len(s)) = p

TrimPrefix(s, p) == IF HasPrefix(s, p) THEN From(s, Len(p) + 1) ELSE s

TrimSuffix(s, p) ==
    IF HasSuffix(s, p) THEN SubSeq(s, 1, Len(s) - Len(p)) ELSE s

\* strings.Index(s, c) for a one-character c, counted from 1; 0 if absent
IndexOf(s, c) ==
    IF \E i \in 1..Len(s) : CharAt(s, i) = c
    THEN CHOOSE i \in 1..Len(s) :
            CharAt(s, i) = c /\ \A j \in 1..(i - 1) : CharAt(s, j) # c
    ELSE 0

\* strings.Split(s, c) for a one-character c
RECURSIVE Split(_, _)
Split(s, c) ==
    IF IndexOf(s, c) = 0 THEN <<s>>
    ELSE <<SubSeq(s, 1, IndexOf(s, c) - 1)>>
         \o Split(From(s, IndexOf(s, c) + 1), c)

\* strings.Join
RECURSIVE Join(_, _)
Join(parts, sep) ==
    IF Len(parts) = 0 THEN ""
    ELSE IF Len(parts) = 1 THEN parts[1]
    ELSE parts[1] \o sep \o Join(Tail(parts), sep)

\* strings.ReplaceAll(s, c, new) for a one-character c
RECURSIVE ReplaceAll(_, _, _)
ReplaceAll(s, c, new) ==
    IF Len(s) = 0 THEN ""
    ELSE (IF CharAt(s, 1) = c THEN new ELSE CharAt(s, 1))
         \o ReplaceAll(From(s, 2), c, new)

\* strings.ReplaceAll(s, old, new) for a non-empty old
RECURSIVE ReplaceAllStr(_, _, _)
ReplaceAllStr(s, old, new) ==
    IF Len(s) = 0 THEN ""
    ELSE IF HasPrefix(s, old)
    THEN new \o ReplaceAllStr(From(s, Len(old) + 1), old, new)
    ELSE CharAt(s, 1) \o ReplaceAllStr(From(s, 2), old, new)

\* strings.ToLower on ASCII letters
LowerChar(c) ==
    LET up == "ABCDEFGHIJKLMNOPQRSTUVWXYZ"
        low == "abcdefghijklmnopqrstuvwxyz"
    IN  IF IndexOf(up, c) = 0 THEN c ELSE CharAt(low, IndexOf(up, c))

RECURSIVE ToLower(_)
ToLower(s) ==
    IF Len(s) = 0 THEN "" ELSE LowerChar(CharAt(s, 1)) \o ToLower(From(s, 2))

\* the byte order mark "\ufeff", written as one character that occurs
\* nowhere else
BOM == "^"

\* bufio.Scanner with ScanLines: the lines of the bytes, without their
\* line ends; a last line that does not end in a newline counts
RECURSIVE ScanLines(_)
ScanLines(bytes) ==
    IF Len(bytes) = 0 THEN <<>>
    ELSE IF IndexOf(bytes, "\n") = 0 THEN <<TrimSuffix(bytes, "\r")>>
    ELSE <<TrimSuffix(SubSeq(bytes, 1, IndexOf(bytes, "\n") - 1), "\r")>>
         \o ScanLines(From(bytes, IndexOf(bytes, "\n") + 1))

\* all characters of s are digits, and there is one
AllDigits(s) == Len(s) > 0 /\ \A i \in 1..Len(s) : IsDigit(CharAt(s, i))

RECURSIVE DigitsVal(_)
DigitsVal(s) ==
    IF Len(s) = 0 THEN 0
    ELSE 10 * DigitsVal(SubSeq(s, 1, Len(s) - 1)) + DigitVal(CharAt(s, Len(s)))

\* strconv.Atoi: an optional sign and decimal digits
Atoi(s) ==
    LET digits == IF HasPrefix(s, "+") \/ HasPrefix(s, "-") THEN From(s, 2)
                  ELSE s
    IN  IF AllDigits(digits)
        THEN [ok |-> TRUE,
              n |-> IF HasPrefix(s, "-") THEN 0 - DigitsVal(digits)
                    ELSE DigitsVal(digits)]
        ELSE [ok |-> FALSE, n |-> 0]

\* fmt.Sprintf("%d", n) for n >= 0, and with a minimum width padded by 0
RECURSIVE Itoa(_)
Itoa(n) == IF n < 10 THEN DigitChar(n) ELSE Itoa(n \div 10) \o DigitChar(n % 10)

RECURSIVE ZeroPad(_, _)
ZeroPad(s, width) == IF Len(s) >= width THEN s ELSE ZeroPad("0" \o s, width)

(* --------------------------- SRT documents ---------------------------- *)

(* An Entry is [Index, StartTime, EndTime, Text]; a time.Duration is kept  *)
(* in milliseconds.                                                        *)
Entry(index, start, end, text) ==
    [Index |-> index, StartTime |-> start, EndTime |-> end, Text |-> text]

\* parseSRTTimestamp(hours, minutes, seconds, millis)
parseSRTTimestamp(h, m, s, ms) ==
    DigitsVal(h) * 3600000 + DigitsVal(m) * 60000 + DigitsVal(s) * 1000
        + DigitsVal(ms)

\* the longest run of white space of s from position p on ends before this
RECURSIVE SkipSpace(_, _)
SkipSpace(s, p) ==
    IF p <= Len(s) /\ IsSpace(CharAt(s, p)) THEN SkipSpace(s, p + 1) ELSE p

\* (\d{2}):(\d{2}):(\d{2})<sep>(\d{3}) matched at position p of s
ClockAt(s, p, sep) ==
    /\ p + 11 <= Len(s)
    /\ AllDigits(SubSeq(s, p, p + 1)) /\ CharAt(s, p + 2) = ":"
    /\ AllDigits(SubSeq(s, p + 3, p + 4)) /\ CharAt(s, p + 5) = ":"
    /\ AllDigits(SubSeq(s, p + 6, p + 7)) /\ CharAt(s, p + 8) = sep
    /\ AllDigits(SubSeq(s, p + 9, p + 11))

ClockValue(s, p) ==
    parseSRTTimestamp(SubSeq(s, p, p + 1), SubSeq(s, p + 3, p + 4),
                      SubSeq(s, p + 6, p + 7), SubSeq(s, p + 9, p + 11))

\* timestampRegex matched at position p of the line: a clock, white space,
\* "-->", white space, a clock
TimestampAt(line, p, sep) ==
    /\ ClockAt(line, p, sep)
    /\ LET a == SkipSpace(line, p + 12)
       IN  /\ Slice(line, a, a + 2) = "-->"
           /\ ClockAt(line, SkipSpace(line, a + 3), sep)

\* timestampRegex.FindStringSubmatch(line): the leftmost match
FindTimestamp(line, sep) ==
    LET at == {p \in 1..Len(line) : TimestampAt(line, p, sep)}
    IN  IF at = {} THEN [ok |-> FALSE, start |-> 0, end |-> 0]
        ELSE LET p == CHOOSE q \in at : \A r \in at : q <= r
             IN  [ok |-> TRUE,
                  start |-> ClockValue(line, p),
                  end |-> ClockValue(line,
                            SkipSpace(line, SkipSpace(line, p + 12) + 3))]

\* the parser's variables: entries, currentEntry (has: it is not nil) and
\* textLines
SRTStart ==
    [entries |-> <<>>, has |-> FALSE, cur |-> Entry(0, 0, 0, ""),
     textLines |-> <<>>]

\* "currentEntry.Text = strings.Join(textLines, "\n"); entries = append(..)"
SRTFlush(st) ==
    [st EXCEPT !.entries =
                  Append(@, [st.cur EXCEPT !.Text = Join(st.textLines, "\n")])]

\* one round of the scanner loop of parseSRTFile
SRTLine(st, line) ==
    IF TrimSpace(line) = ""
    THEN IF st.has /\ Len(st.textLines) > 0
         THEN [SRTFlush(st) EXCEPT !.has = FALSE, !.cur = Entry(0, 0, 0, ""),
                                   !.textLines = <<>>]
         ELSE st
    ELSE IF ~st.has /\ Atoi(TrimSpace(line)).ok
    THEN [st EXCEPT !.has = TRUE,
                    !.cur = Entry(Atoi(TrimSpace(line)).n, 0, 0, "")]
    ELSE IF /\ st.has /\ st.cur.StartTime = 0 /\ st.cur.EndTime = 0
            /\ FindTimestamp(line, ",").ok
    THEN [st EXCEPT !.cur.StartTime = FindTimestamp(line, ",").start,
                    !.cur.EndTime = FindTimestamp(line, ",").end]
    ELSE IF st.has THEN [st EXCEPT !.textLines = Append(@, line)]
    ELSE st

RECURSIVE SRTScan(_, _, _)
SRTScan(st, lines, lineNum) ==
    IF lineNum > Len(lines) THEN st
    ELSE SRTScan(SRTLine(st, IF lineNum = 1
                             THEN TrimPrefix(lines[lineNum], BOM)
                             ELSE lines[lineNum]),
                 lines, lineNum + 1)

\* parseSRTFile(path), given the bytes of the file: the entries
parseSRTFile(bytes) ==
    LET st == SRTScan(SRTStart, ScanLines(bytes), 1)
    IN  IF st.has /\ Len(st.textLines) > 0 THEN SRTFlush(st).entries
        ELSE st.entries

\* formatSRTTime and formatVTTTime
formatTime(d, sep) ==
    ZeroPad(Itoa(d \div 3600000), 2) \o ":"
        \o ZeroPad(Itoa((d \div 60000) % 60), 2) \o ":"
        \o ZeroPad(Itoa((d \div 1000) % 60), 2) \o sep
        \o ZeroPad(Itoa(d % 1000), 3)

formatSRTTime(d) == formatTime(d, ",")

formatVTTTime(d) == formatTime(d, ".")

\* the loop of SRTWriter.Write and of VTTWriter.Write from entry i on
RECURSIVE WriteEntries(_, _, _)
WriteEntries(entries, i, sep) ==
    IF i > Len(entries) THEN ""
    ELSE Itoa(i) \o "\n"
         \o formatTime(entries[i].StartTime, sep) \o " --> "
         \o formatTime(entries[i].EndTime, sep) \o "\n"
         \o entries[i].Text \o "\n\n"
         \o WriteEntries(entries, i + 1, sep)

\* SRTWriter.Write(sub, path): the bytes written
SRTWriterWrite(entries) == WriteEntries(entries, 1, ",")

\* VTTWriter.Write(sub, path): the bytes written
VTTWriterWrite(entries) == "WEBVTT\n\n" \o WriteEntries(entries, 1, ".")

(* --------------------------- VTT documents ---------------------------- *)

\* (\d{2}):(\d{2})\.(\d{3}) matched at position p of s
ShortClockAt(s, p) ==
    /\ p + 8 <= Len(s)
    /\ AllDigits(SubSeq(s, p, p + 1)) /\ CharAt(s, p + 2) = ":"
    /\ AllDigits(SubSeq(s, p + 3, p + 4)) /\ CharAt(s, p + 5) = "."
    /\ AllDigits(SubSeq(s, p + 6, p + 8))

\* parseVTTTimestamp("00", minutes, seconds, millis) of the clock at p
ShortClockValue(s, p) ==
    parseSRTTimestamp("00", SubSeq(s, p, p + 1), SubSeq(s, p + 3, p + 4),
                      SubSeq(s, p + 6, p + 8))

\* shortTimestampRegex matched at position p of the line
ShortTimestampAt(line, p) ==
    /\ ShortClockAt(line, p)
    /\ LET a == SkipSpace(line, p + 9)
       IN  /\ Slice(line, a, a + 2) = "-->"
           /\ ShortClockAt(line, SkipSpace(line, a + 3))

\* shortTimestampRegex.FindStringSubmatch(line)
FindShortTimestamp(line) ==
    LET at == {p \in 1..Len(line) : ShortTimestampAt(line, p)}
    IN  IF at = {} THEN [ok |-> FALSE, start |-> 0, end |-> 0]
        ELSE LET p == CHOOSE q \in at : \A r \in at : q <= r
             IN  [ok |-> TRUE,
                  start |-> ShortClockValue(line, p),
                  end |-> ShortClockValue(line,
                            SkipSpace(line, SkipSpace(line, p + 9) + 3))]

\* the parser's variables; skipping: the scanner is inside the inner loop
\* that reads a NOTE or STYLE block up to its blank line
VTTStart ==
    [entries |-> <<>>, has |-> FALSE, cur |-> Entry(0, 0, 0, ""),
     textLines |-> <<>>, headerParsed |-> FALSE, entryIndex |-> 0,
     skipping |-> FALSE]

\* a timestamp line: the entry before it is closed, a new one begins
VTTCue(st, start, end) ==
    LET closed == IF st.has /\ Len(st.textLines) > 0 THEN SRTFlush(st) ELSE st
    IN  [closed EXCEPT !.textLines = IF st.has /\ Len(st.textLines) > 0
                                     THEN <<>> ELSE @,
                       !.entryIndex = @ + 1,
                       !.has = TRUE,
                       !.cur = Entry(st.entryIndex + 1, start, end, "")]

\* one line read by the scanner of parseVTTFile
VTTLine(st, line) ==
    LET trimmed == TrimSpace(line)
    IN  IF st.skipping THEN [st EXCEPT !.skipping = trimmed # ""]
        ELSE IF ~st.headerParsed /\ HasPrefix(trimmed, "WEBVTT")
        THEN [st EXCEPT !.headerParsed = TRUE]
        ELSE IF HasPrefix(trimmed, "NOTE") \/ HasPrefix(trimmed, "STYLE")
        THEN [st EXCEPT !.skipping = TRUE]
        ELSE IF trimmed = ""
        THEN IF st.has /\ Len(st.textLines) > 0
             THEN [SRTFlush(st) EXCEPT !.has = FALSE,
                                       !.cur = Entry(0, 0, 0, ""),
                                       !.textLines = <<>>]
             ELSE st
        ELSE IF FindTimestamp(line, ".").ok
        THEN VTTCue(st, FindTimestamp(line, ".").start,
                    FindTimestamp(line, ".").end)
        ELSE IF FindShortTimestamp(line).ok
        THEN VTTCue(st, FindShortTimestamp(line).start,
                    FindShortTimestamp(line).end)
        ELSE IF st.has THEN [st EXCEPT !.textLines = Append(@, line)]
        ELSE st

RECURSIVE VTTScan(_, _, _)
VTTScan(st, lines, lineNum) ==
    IF lineNum > Len(lines) THEN st
    ELSE VTTScan(VTTLine(st, IF lineNum = 1
                             THEN TrimPrefix(lines[lineNum], BOM)
                             ELSE lines[lineNum]),
                 lines, lineNum + 1)

\* parseVTTFile(path), given the bytes of the file: the entries
parseVTTFile(bytes) ==
    LET st == VTTScan(VTTStart, ScanLines(bytes), 1)
    IN  IF st.has /\ Len(st.textLines) > 0 THEN SRTFlush(st).entries
        ELSE st.entries

(* --------------------------- ASS documents ---------------------------- *)

\* the end of a match of `(\{[^}]*\})+` that has reached position p: a
\* further group is a "{" and everything up to the next "}"
RECURSIVE TagRunEnd(_, _)
TagRunEnd(text, p) ==
    IF /\ p <= Len(text) /\ CharAt(text, p) = "{"
       /\ IndexOf(From(text, p), "}") # 0
    THEN TagRunEnd(text, p + IndexOf(From(text, p), "}"))
    ELSE p

\* an extraction that takes the first group only
extractFirstTag(text) ==
    IF Len(text) > 0 /\ CharAt(text, 1) = "{" /\ IndexOf(text, "}") # 0
    THEN <<SubSeq(text, 1, IndexOf(text, "}")),
           From(text, IndexOf(text, "}") + 1)>>
    ELSE <<"", text>>

\* func extractLeadingTags(text string) (string, string)
extractLeadingTags(text) ==
    <<SubSeq(text, 1, TagRunEnd(text, 1) - 1), From(text, TagRunEnd(text, 1))>>

\* extractLeadingTags applied to one text: the texts of up to MaxTagText
\* characters made of "{", "}" and one other character
MaxTagText == 7

RECURSIVE TagTexts(_)
TagTexts(n) ==
    IF n = 0 THEN {""}
    ELSE TagTexts(n - 1)
           \cup {t \o c : t \in {u \in TagTexts(n - 1) : Len(u) = n - 1},
                           c \in {"{", "}", "a"}}

InitTags ==
    /\ NoRun
    /\ NoDoc
    /\ call \in {[fn |-> "extractLeadingTags", text |-> text,
                   returned |-> FALSE, value |-> <<"", "">>] :
                     text \in TagTexts(MaxTagText)}

ApplyExtractLeadingTags ==
    /\ call.fn = "extractLeadingTags"
    /\ ~call.returned
    /\ call' = [call EXCEPT !.returned = TRUE,
                            !.value = extractLeadingTags(call.text)]
    /\ UNCHANGED <<runVars, docVars>>

SpecTags == InitTags /\ [][ApplyExtractLeadingTags]_vars

\* func splitASSFields(content string, numFields int) []string
RECURSIVE splitASSFieldsFrom(_, _, _, _)
splitASSFieldsFrom(parts, remaining, i, numFields) ==
    IF i >= numFields - 1 THEN Append(parts, remaining)
    ELSE IF IndexOf(remaining, ",") = 0
    THEN Append(Append(parts, remaining), "")
    ELSE splitASSFieldsFrom(
            Append(parts, SubSeq(remaining, 1, IndexOf(remaining, ",") - 1)),
            From(remaining, IndexOf(remaining, ",") + 1), i + 1, numFields)

splitASSFields(content, numFields) ==
    IF numFields <= 0 THEN <<>>
    ELSE splitASSFieldsFrom(<<>>, content, 0, numFields)

\* ASSDialogue
ASSDialogue(fieldsBefore, text, leadingTags, textWithoutTags, originalLine) ==
    [FieldsBefore |-> fieldsBefore, Text |-> text,
     LeadingTags |-> leadingTags, TextWithoutTags |-> textWithoutTags,
     OriginalLine |-> originalLine]

\* a run-time panic: the call does not return
Panic(msg) == [tag |-> "panic", msg |-> msg]

\* func (f *ASSFile) parseDialogueLine(line string) (ASSDialogue, error)
\* (textColumnIndex counts from 0); parts[f.textColumnIndex] panics when
\* the index kept from an earlier Format line is past the fields
parseDialogueLine(formatColumns, textColumnIndex, line) ==
    LET content == TrimSpace(TrimPrefix(TrimSpace(line), "Dialogue:"))
        parts == splitASSFields(content, Len(formatColumns))
    IN  IF Len(formatColumns) = 0
        THEN [err |-> BaseError("format columns not parsed yet"),
              dialogue |-> ASSDialogue(<<>>, "", "", "", line)]
        ELSE IF Len(parts) < Len(formatColumns)
        THEN [err |-> BaseError("expected %d fields, got %d"),
              dialogue |-> ASSDialogue(<<>>, "", "", "", line)]
        ELSE IF textColumnIndex >= Len(parts)
        THEN [err |-> Panic("index out of range"),
              dialogue |-> ASSDialogue(<<>>, "", "", "", line)]
        ELSE [err |-> Nil,
              dialogue |->
                ASSDialogue(SubSeq(parts, 1, textColumnIndex),
                            parts[textColumnIndex + 1],
                            extractLeadingTags(parts[textColumnIndex + 1])[1],
                            extractLeadingTags(parts[textColumnIndex + 1])[2],
                            line)]

\* the columns of a Format line, each trimmed
FormatColumns(trimmedLine) ==
    LET columns == Split(TrimPrefix(trimmedLine, "Format:"), ",")
    IN  [i \in 1..Len(columns) |-> TrimSpace(columns[i])]

\* the position, from 0, of the first column named Text in any case; -1 if
\* there is none
TextColumn(columns) ==
    LET at == {i \in 1..Len(columns) : ToLower(columns[i]) = "text"}
    IN  IF at = {} THEN 0 - 1
        ELSE (CHOOSE i \in at : \A j \in at : i <= j) - 1

\* the ASSFile under construction, the parser's inEventsSection, and the
\* error it returned
ASSStart ==
    [preEventsLines |-> <<>>, formatLine |-> "", formatColumns |-> <<>>,
     textColumnIndex |-> 0 - 1, dialogues |-> <<>>,
     nonDialogueEventLines |-> <<>>, inEventsSection |-> FALSE, err |-> Nil]

\* one round of the scanner loop of parseASSFile
ASSLine(st, line, lineNum) ==
    LET trimmedLine == TrimSpace(line)
    IN  IF HasPrefix(trimmedLine, "[") /\ HasSuffix(trimmedLine, "]")
        THEN [st EXCEPT !.inEventsSection =
                          ToLower(TrimSuffix(TrimPrefix(trimmedLine, "["), "]"))
                              = "events",
                        !.preEventsLines = Append(@, line)]
        ELSE IF ~st.inEventsSection
        THEN [st EXCEPT !.preEventsLines = Append(@, line)]
        ELSE IF HasPrefix(trimmedLine, "Format:")
        THEN LET columns == FormatColumns(trimmedLine)
                 index == IF TextColumn(columns) >= 0 THEN TextColumn(columns)
                          ELSE st.textColumnIndex
             IN  [st EXCEPT !.formatLine = line,
                            !.formatColumns = columns,
                            !.textColumnIndex = index,
                            !.err = IF index = 0 - 1
                                    THEN BaseError("ASS file missing Text column in Format line")
                                    ELSE Nil]
        ELSE IF HasPrefix(trimmedLine, "Dialogue:")
        THEN LET d == parseDialogueLine(st.formatColumns, st.textColumnIndex,
                                        line)
             IN  IF d.err.tag = "panic" THEN [st EXCEPT !.err = d.err]
                 ELSE IF d.err # Nil
                 THEN [st EXCEPT !.err = WrapError("failed to parse Dialogue at line", lineNum, d.err)]
                 ELSE [st EXCEPT !.dialogues = Append(@, d.dialogue)]
        ELSE [st EXCEPT !.nonDialogueEventLines = Append(@, line)]

RECURSIVE ASSScan(_, _, _)
ASSScan(st, lines, lineNum) ==
    IF lineNum > Len(lines) \/ st.err # Nil THEN st
    ELSE ASSScan(ASSLine(st, IF lineNum = 1
                                 THEN TrimPrefix(lines[lineNum], BOM)
                                 ELSE lines[lineNum],
                         lineNum),
                 lines, lineNum + 1)

\* func parseASSFile(path string) (*ASSFile, error), given the bytes of
\* the file
parseASSFile(bytes) ==
    LET st == ASSScan(ASSStart, ScanLines(bytes), 1)
    IN  IF st.err = Nil /\ st.formatLine = ""
        THEN [st EXCEPT !.err = BaseError("ASS file missing Format line in [Events] section")]
        ELSE st

\* func parseASSTimestamp(ts string) time.Duration, in milliseconds
parseASSTimestamp(ts) ==
    LET parts == Split(TrimSpace(ts), ":")
    IN  IF Len(parts) # 3 THEN 0
        ELSE IF ~Atoi(parts[1]).ok \/ ~Atoi(parts[2]).ok THEN 0
        ELSE LET secParts == Split(parts[3], ".")
             IN  IF Len(secParts) # 2 THEN 0
                 ELSE IF ~Atoi(secParts[1]).ok \/ ~Atoi(secParts[2]).ok THEN 0
                 ELSE Atoi(parts[1]).n * 3600000 + Atoi(parts[2]).n * 60000
                        + Atoi(secParts[1]).n * 1000 + Atoi(secParts[2]).n * 10

\* func formatASSTime(d time.Duration) string
formatASSTime(d) ==
    Itoa(d \div 3600000) \o ":"
        \o ZeroPad(Itoa((d \div 60000) % 60), 2) \o ":"
        \o ZeroPad(Itoa((d \div 1000) % 60), 2) \o "."
        \o ZeroPad(Itoa((d % 1000) \div 10), 2)

\* func (f *ASSFile) buildDialogueLine(d ASSDialogue) string
buildDialogueLine(f, d) ==
    LET allFields ==
          [i \in 1..Len(f.formatColumns) |->
              IF i = f.textColumnIndex + 1 THEN d.Text
              ELSE IF i <= Len(d.FieldsBefore) THEN d.FieldsBefore[i]
              ELSE ""]
    IN  "Dialogue: " \o Join(allFields, ",")

\* every line followed by a newline
RECURSIVE WriteLines(_)
WriteLines(lines) ==
    IF Len(lines) = 0 THEN ""
    ELSE lines[1] \o "\n" \o WriteLines(Tail(lines))

\* func (f *ASSFile) Write(path string) error: the bytes written
ASSFileWrite(f) ==
    WriteLines(f.preEventsLines)
        \o f.formatLine \o "\n"
        \o WriteLines([i \in 1..Len(f.dialogues) |->
                          buildDialogueLine(f, f.dialogues[i])])
        \o WriteLines(f.nonDialogueEventLines)

(* ------------------------ subtitle documents -------------------------- *)

\* the most calls made on one document
MaxOps == 3

\* subtitle files by format: entries numbered from 1 and otherwise, text
\* of one and of two lines, a clock without white space around the arrow
SRTFiles ==
    { "1\n00:00:01,000 --> 00:00:04,000\nHello, world!\n\n"
        \o "2\n00:00:05,500 --> 00:00:08,200\nThis is a test.\nWith multiple lines.\n",
      "7\n00:00:01,000-->00:00:04,000\nOne\n\n3\n01:02:03,004 --> 01:02:05,000\nTwo\n\n" }

VTTFiles ==
    { "WEBVTT\n\nNOTE made by hand\n\n1\n00:00:01.000 --> 00:00:04.000\nHello\n\n"
        \o "00:05.500 --> 00:08.200\nA\nB\n" }

\* ASS files: the Events section last and only Dialogue lines in it; a
\* Comment line between the Dialogue lines and a section after Events; a
\* Format line with a column after the Text column
ASSFiles ==
    { "[Script Info]\nTitle: t\n\n[V4+ Styles]\nStyle: Default,Arial,20\n\n[Events]\n"
        \o "Format: Layer, Start, End, Style, Text\n"
        \o "Dialogue: 0,0:00:01.00,0:00:04.00,Default,Original, text\n"
        \o "Dialogue: 0,0:00:05.00,0:00:08.00,Italic,{\\pos(1,2)}{\\an8}Tagged {\\i1}text\n",
      "[Script Info]\nTitle: t\n\n[Events]\n"
        \o "Format: Layer, Start, End, Text\n"
        \o "Dialogue: 0,0:00:01.00,0:00:04.00,{\\an8}One\n"
        \o "Comment: 0,0:00:02.00,0:00:03.00,note\n"
        \o "Dialogue: 0,0:00:05.00,0:00:08.00,Two\n"
        \o "\n[Fonts]\nfontname: a.ttf\n",
      "[Events]\nFormat: Start, TEXT, Effect\nDialogue: 1,Hi, you,fx\n" }

\* the texts given to SetText and SetTextWithOverlay
Texts == {"Hi", "a\nb", ""}

\* a subtitle.File: an SRTFile or a VTTFile (entries), or an ASSFile
SRTFile(entries) == [format |-> "srt", entries |-> entries]

VTTFile(entries) == [format |-> "vtt", entries |-> entries]

ASSFile(st) ==
    [format |-> "ass", preEventsLines |-> st.preEventsLines,
     formatLine |-> st.formatLine, formatColumns |-> st.formatColumns,
     textColumnIndex |-> st.textColumnIndex, dialogues |-> st.dialogues,
     nonDialogueEventLines |-> st.nonDialogueEventLines]

NoFile == [format |-> "none"]

\* func Open(path string) (File, error), given the format the extension
\* of the path selects and the bytes of the file
Open(format, bytes) ==
    IF format = "srt" THEN [file |-> SRTFile(parseSRTFile(bytes)), err |-> Nil]
    ELSE IF format = "vtt"
    THEN [file |-> VTTFile(parseVTTFile(bytes)), err |-> Nil]
    ELSE IF parseASSFile(bytes).err # Nil
    THEN [file |-> NoFile, err |-> parseASSFile(bytes).err]
    ELSE [file |-> ASSFile(parseASSFile(bytes)), err |-> Nil]

\* the number of entries of the document
NumEntries(f) ==
    IF f.format = "ass" THEN Len(f.dialogues)
    ELSE IF f.format = "none" THEN 0
    ELSE Len(f.entries)

\* fmt.Errorf("index %d out of range (0-%d)", index, len-1)
IndexError(index, n) ==
    [tag |-> "error", msg |-> "index %d out of range (0-%d)",
     index |-> index, max |-> n - 1]

\* func (f *ASSFile) parseDialogueTimes(d ASSDialogue): the time of the
\* last column with the name (in any case), 0 if there is none among the
\* fields before the text
DialogueTime(f, d, name) ==
    LET at == {i \in 1..Len(f.formatColumns) : ToLower(f.formatColumns[i]) = name}
        idx == CHOOSE i \in at : \A j \in at : j <= i
    IN  IF at # {} /\ idx <= Len(d.FieldsBefore)
        THEN parseASSTimestamp(d.FieldsBefore[idx]) ELSE 0

\* func (f *SRTFile) Subtitle() *Subtitle, and the same method of VTTFile
\* and ASSFile: the Entries of the result. An SRTFile and a VTTFile hand
\* out their own entries slice; an ASSFile makes a new one.
Subtitle(f) ==
    IF f.format = "ass"
    THEN [i \in 1..Len(f.dialogues) |->
            Entry(i, DialogueTime(f, f.dialogues[i], "start"),
                  DialogueTime(f, f.dialogues[i], "end"),
                  ReplaceAllStr(ReplaceAllStr(f.dialogues[i].Text, "\\N", "\n"),
                                "\\n", "\n"))]
    ELSE IF f.format = "none" THEN <<>>
    ELSE f.entries

\* a document was opened from one of the files
InitDoc ==
    /\ NoRun
    /\ call = Nil
    /\ \E format \in {"srt", "vtt", "ass"} :
         \E bytes \in (IF format = "srt" THEN SRTFiles
                        ELSE IF format = "vtt" THEN VTTFiles ELSE ASSFiles) :
            /\ Open(format, bytes).err = Nil
            /\ opened = bytes
            /\ subFile = Open(format, bytes).file
    /\ written = [exists |-> FALSE, bytes |-> ""]
    /\ lastOp = [op |-> "Open", index |-> 0, text |-> "", err |-> Nil]
    /\ prevOp = NoOp
    /\ nops = 0

\* the text a SetText stores: as given (SRT, VTT), or as a SetText that
\* keeps the tags the stored text begins with
SetTextKeepingTags(f, index, text) ==
    IF f.format = "ass"
    THEN [f EXCEPT !.dialogues[index + 1].Text =
                      extractLeadingTags(@)[1] \o f.dialogues[index + 1].LeadingTags
                          \o ReplaceAll(text, "\n", "\\N"),
                   !.dialogues[index + 1].TextWithoutTags =
                      ReplaceAll(text, "\n", "\\N")]
    ELSE [f EXCEPT !.entries[index + 1].Text = text]

\* a SetText that adds the text to the text an SRT or VTT entry has
SetTextAppending(f, index, text) ==
    IF f.format = "ass"
    THEN [f EXCEPT !.dialogues[index + 1].Text =
                      f.dialogues[index + 1].LeadingTags
                          \o ReplaceAll(text, "\n", "\\N"),
                   !.dialogues[index + 1].TextWithoutTags =
                      ReplaceAll(text, "\n", "\\N")]
    ELSE [f EXCEPT !.entries[index + 1].Text = @ \o text]

\* SRTFile.SetText, VTTFile.SetText and ASSFile.SetText after the range
\* check: the file with the text of the entry at index (from 0) replaced
SetTextStored(f, index, text) ==
    IF f.format = "ass"
    THEN [f EXCEPT !.dialogues[index + 1].Text =
                      f.dialogues[index + 1].LeadingTags
                          \o ReplaceAll(text, "\n", "\\N"),
                   !.dialogues[index + 1].TextWithoutTags =
                      ReplaceAll(text, "\n", "\\N")]
    ELSE [f EXCEPT !.entries[index + 1].Text = text]

\* a SetText that takes the position len(entries) for the last position
SetTextClamping(index, text) ==
    /\ subFile.format # "none"
    /\ nops < MaxOps
    /\ nops' = nops + 1
    /\ prevOp' = lastOp
    /\ IF index < 0 \/ index > NumEntries(subFile)
       THEN /\ lastOp' = [op |-> "SetText", index |-> index, text |-> text,
                          err |-> IndexError(index, NumEntries(subFile))]
            /\ UNCHANGED subFile
       ELSE /\ lastOp' = [op |-> "SetText", index |-> index, text |-> text,
                          err |-> Nil]
            /\ subFile' = SetTextStored(subFile,
                                        IF index = NumEntries(subFile)
                                        THEN index - 1 ELSE index, text)
    /\ UNCHANGED <<runVars, call, opened, written>>

\* func (f *SRTFile) SetText(index int, text string) error, and the same
\* method of VTTFile and ASSFile
SetText(index, text) ==
    /\ subFile.format # "none"
    /\ nops < MaxOps
    /\ nops' = nops + 1
    /\ prevOp' = lastOp
    /\ IF index < 0 \/ index >= NumEntries(subFile)
       THEN /\ lastOp' = [op |-> "SetText", index |-> index, text |-> text,
                          err |-> IndexError(index, NumEntries(subFile))]
            /\ UNCHANGED subFile
       ELSE /\ lastOp' = [op |-> "SetText", index |-> index, text |-> text,
                          err |-> Nil]
            /\ subFile' = SetTextStored(subFile, index, text)
    /\ UNCHANGED <<runVars, call, opened, written>>

\* ASSFile.SetTextWithOverlay after the range check
OverlayStored(f, index, translatedText) ==
    [f EXCEPT !.dialogues[index + 1].Text =
                 f.dialogues[index + 1].LeadingTags
                     \o ReplaceAll(translatedText, "\n", "\\N") \o "\\N"
                     \o f.dialogues[index + 1].TextWithoutTags]

\* func (f *ASSFile) SetTextWithOverlay(index int, translatedText string)
SetTextWithOverlay(index, translatedText) ==
    /\ subFile.format = "ass"
    /\ nops < MaxOps
    /\ nops' = nops + 1
    /\ prevOp' = lastOp
    /\ IF index < 0 \/ index >= NumEntries(subFile)
       THEN /\ lastOp' = [op |-> "SetTextWithOverlay", index |-> index,
                          text |-> translatedText,
                          err |-> IndexError(index, NumEntries(subFile))]
            /\ UNCHANGED subFile
       ELSE /\ lastOp' = [op |-> "SetTextWithOverlay", index |-> index,
                          text |-> translatedText, err |-> Nil]
            /\ subFile' = OverlayStored(subFile, index, translatedText)
    /\ UNCHANGED <<runVars, call, opened, written>>

\* the bytes File.Write(path) writes
FileBytes(f) ==
    IF f.format = "srt" THEN SRTWriterWrite(f.entries)
    ELSE IF f.format = "vtt" THEN VTTWriterWrite(f.entries)
    ELSE ASSFileWrite(f)

\* func (f *SRTFile) Write(path string) error, and the same method of
\* VTTFile and ASSFile
Write ==
    /\ subFile.format # "none"
    /\ nops < MaxOps
    /\ nops' = nops + 1
    /\ prevOp' = lastOp
    /\ written' = [exists |-> TRUE, bytes |-> FileBytes(subFile)]
    /\ lastOp' = [op |-> "Write", index |-> 0, text |-> "", err |-> Nil]
    /\ UNCHANGED <<runVars, call, opened, subFile>>

\* Open(path) of the file that Write wrote
Reopen ==
    /\ subFile.format # "none"
    /\ written.exists
    /\ nops < MaxOps
    /\ nops' = nops + 1
    /\ prevOp' = lastOp
    /\ opened' = written.bytes
    /\ subFile' = Open(subFile.format, written.bytes).file
    /\ lastOp' = [op |-> "Open", index |-> 0, text |-> "",
                  err |-> Open(subFile.format, written.bytes).err]
    /\ UNCHANGED <<runVars, call, written>>

SomeSetText ==
    \E index \in (0 - 1)..NumEntries(subFile), text \in Texts :
        SetText(index, text)

SomeSetTextWithOverlay ==
    \E index \in (0 - 1)..NumEntries(subFile), text \in Texts :
        SetTextWithOverlay(index, text)

NextDoc == SomeSetText \/ SomeSetTextWithOverlay \/ Write \/ Reopen

SpecDoc == InitDoc /\ [][NextDoc]_vars

\* the caller writes back the text of an entry as Subtitle() returns it:
\*   sub := f.Subtitle(); f.SetText(i, sub.Entries[i].Text)
SomeWriteBack ==
    \E index \in 0..(NumEntries(subFile) - 1) :
        SetText(index, Subtitle(subFile)[index + 1].Text)

NextWriteBack == SomeWriteBack \/ Write

SpecWriteBack == InitDoc /\ [][NextWriteBack]_vars

(* ------------------------- Open applied to a path -------------------- *)

\* filepath.Ext(path): the suffix from the last "." of the last element of
\* the path on, "" if that element has no "."
RECURSIVE ExtFrom(_, _)
ExtFrom(path, i) ==
    IF i < 1 \/ CharAt(path, i) = "/" THEN ""
    ELSE IF CharAt(path, i) = "." THEN From(path, i)
    ELSE ExtFrom(path, i - 1)

Ext(path) == ExtFrom(path, Len(path))

\* an Open that compares the extension as it is written
OpenCaseSensitive(path, bytes) ==
    LET ext == Ext(path)
    IN  IF ext = ".srt" THEN Open("srt", bytes)
        ELSE IF ext = ".vtt" THEN Open("vtt", bytes)
        ELSE IF ext \in {".ass", ".ssa"} THEN Open("ass", bytes)
        ELSE [file |-> NoFile,
              err |-> [tag |-> "error", msg |-> "unsupported subtitle format: %s",
                       ext |-> ext]]

\* func Open(path string) (File, error), given the bytes of the file
OpenPath(path, bytes) ==
    LET ext == ToLower(Ext(path))
    IN  IF ext = ".srt" THEN Open("srt", bytes)
        ELSE IF ext = ".vtt" THEN Open("vtt", bytes)
        ELSE IF ext \in {".ass", ".ssa"} THEN Open("ass", bytes)
        ELSE [file |-> NoFile,
              err |-> [tag |-> "error", msg |-> "unsupported subtitle format: %s",
                       ext |-> ext]]

Paths ==
    {"a.srt", "a.SRT", "b/a.Vtt", "a.ass", "a.SSA", "a.Ass", "a.txt", "srt",
     "a.srt.bak", "x.srt/a", "a.", "a.assa"}

\* files: SRT and VTT files with well-formed and with malformed timestamp
\* lines; ASS files with the Text column last, in the middle and first,
\* with a Dialogue line that has too few fields, and with no Text column;
\* ASS files with no Format line in Events, with the only Format line
\* outside Events, with a Dialogue line before the Format line, and with
\* a second Format line that has no Text column
OpenFiles ==
    { "1\n00:00:01,000 --> 00:00:04,000\nHi\n",
      "1\n00:00:01,00 --> 00:00:04,000\nHi\n\n2\n00:00:05,000 --> 00:00:06,000\nYo\n",
      "WEBVTT\n\n00:00:01.000 --> 00:00:04.000\nHi\n",
      "WEBVTT\n\n1\n00:00:01.00 --> 00:00:04.000\nHi\n\n00:05.000 --> 00:06.000\nYo\n",
      "[Events]\nFormat: Start, Style, Text\nDialogue: 1,D,Hi, you\n",
      "[Events]\nFormat: Start, TEXT, Effect\nDialogue: 1,Hi, you,fx\n",
      "[Events]\nFormat: text, Start, Effect\nDialogue: Hi,1,fx\n",
      "[Events]\nFormat: Start, Style, Name, Text\nDialogue: 1,D,N,a\nDialogue: 2,D\n",
      "[Events]\nFormat: Start, Style, Text\nDialogue: 1,D\n",
      "[Events]\nFormat: Start, Style\nDialogue: 1,D\n",
      "[Events]\nComment: 1,note\n",
      "[V4+ Styles]\nFormat: Name, Text\nStyle: D,x\n",
      "[Events]\nDialogue: 1,Hi\nFormat: Start, Text\n",
      "[Events]\nFormat: Start, Text\nFormat: Start, End\nDialogue: 1,Hi\n",
      "[Events]\nFormat: Start, Text\nFormat: Start\nDialogue: 1\n" }

InitOpen ==
    /\ NoRun
    /\ NoDoc
    /\ call \in {[fn |-> "Open", path |-> path, bytes |-> bytes,
                   returned |-> FALSE,
                   value |-> [file |-> NoFile, err |-> Nil]] :
                     path \in Paths, bytes \in OpenFiles}

ApplyOpen ==
    /\ call.fn = "Open"
    /\ ~call.returned
    /\ call' = [call EXCEPT !.returned = TRUE,
                            !.value = OpenPath(call.path, call.bytes)]
    /\ UNCHANGED <<runVars, docVars>>

SpecOpen == InitOpen /\ [][ApplyOpen]_vars

(* ------------------- a duration formatted and parsed ------------------ *)

\* the hours go up to MaxHours
MaxHours == 100

\* durations in milliseconds
Durations ==
    {h * 3600000 + m * 60000 + s * 1000 + ms :
        h \in {0, 1, 99, MaxHours}, m \in {0, 7, 59}, s \in {0, 59},
        ms \in {0, 5, 10, 999}}

InitTime ==
    /\ NoRun
    /\ NoDoc
    /\ call \in {[fn |-> "time", d |-> d, returned |-> FALSE,
                   value |-> [srt |-> 0, vtt |-> 0, ass |-> 0, assText |-> ""]] :
                     d \in Durations}

\* the timestamp line SRTWriter.Write and VTTWriter.Write make of d is read
\* by the regular expression of the parser of the format; the string
\* formatASSTime makes of d is read by parseASSTimestamp
ApplyTime ==
    /\ call.fn = "time"
    /\ ~call.returned
    /\ call' =
         [call EXCEPT
            !.returned = TRUE,
            !.value =
               [srt |-> FindTimestamp(formatSRTTime(call.d) \o " --> "
                                        \o formatSRTTime(call.d), ",").start,
                vtt |-> FindTimestamp(formatVTTTime(call.d) \o " --> "
                                        \o formatVTTTime(call.d), ".").start,
                ass |-> parseASSTimestamp(formatASSTime(call.d)),
                assText |-> formatASSTime(call.d)]]
    /\ UNCHANGED <<runVars, docVars>>

SpecTime == InitTime /\ [][ApplyTime]_vars

(* --------------------- validation of decoded records ------------------ *)

\* decoded records: a transcriptSegment has Text, Start and End, a
\* TranslationResult has Index and Text
DecodedRecords(rk) ==
    IF rk = "segment"
    THEN [Text : {"", "a"}, Start : {0 - 1, 0, 1}, End : {0 - 1, 0, 2}, Index : {0}]
    ELSE [Text : {"", "a"}, Start : {0}, End : {0}, Index : {0 - 1, 0, 1}]

\* the slices of up to n records (the nil slice is the empty one)
RECURSIVE RecordLists(_, _)
RecordLists(rk, n) ==
    IF n = 0 THEN {<<>>}
    ELSE RecordLists(rk, n - 1)
           \cup {Append(l, r) : l \in {k \in RecordLists(rk, n - 1) : Len(k) = n - 1},
                                r \in DecodedRecords(rk)}

InitValidate ==
    /\ NoRun
    /\ NoDoc
    /\ \E rk \in {"segment", "translation"} :
         \E recs \in RecordLists(rk, MaxRecords) :
            call = [fn |-> "validate", rk |-> rk, recs |-> recs,
                    returned |-> FALSE, value |-> FALSE]

\* validateSegments(segments) / validateResults(results)
ApplyValidate ==
    /\ call.fn = "validate"
    /\ ~call.returned
    /\ \E rk \in {"segment", "translation"} :
         /\ rk = call.rk
         /\ call' = [call EXCEPT !.returned = TRUE,
                                 !.value = validateRecords(rk, call.recs)]
    /\ UNCHANGED <<runVars, docVars>>

SpecValidate == InitValidate /\ [][ApplyValidate]_vars

(* ------------------- escapes in a translation response ---------------- *)

\* the characters that follow a backslash in a valid JSON escape
JSONEscapes == {"\"", "\\", "/", "b", "f", "n", "r", "t", "u"}

\* a fix that doubles a backslash wherever a character outside the escape
\* set follows it, also when the backslash is itself escaped by the one
\* before it
RECURSIVE fixEveryBackslash(_, _)
fixEveryBackslash(s, i) ==
    IF i > Len(s) THEN ""
    ELSE IF i < Len(s) /\ CharAt(s, i) = "\\" /\ CharAt(s, i + 1) \notin JSONEscapes
    THEN "\\\\" \o fixEveryBackslash(s, i + 1)
    ELSE CharAt(s, i) \o fixEveryBackslash(s, i + 1)

\* a fix that doubles the backslash of every escape, valid or not
RECURSIVE fixAllEscapes(_, _)
fixAllEscapes(s, i) ==
    IF i > Len(s) THEN ""
    ELSE IF i < Len(s) /\ CharAt(s, i) = "\\"
    THEN "\\\\" \o CharAt(s, i + 1) \o fixAllEscapes(s, i + 2)
    ELSE CharAt(s, i) \o fixAllEscapes(s, i + 1)

\* func fixInvalidEscapes(s string) string, from position i (from 1) on
RECURSIVE fixInvalidEscapes(_, _)
fixInvalidEscapes(s, i) ==
    IF i > Len(s) THEN ""
    ELSE IF i < Len(s) /\ CharAt(s, i) = "\\"
    THEN IF CharAt(s, i + 1) \in JSONEscapes
         THEN SubSeq(s, i, i + 1) \o fixInvalidEscapes(s, i + 2)
         ELSE "\\\\" \o CharAt(s, i + 1) \o fixInvalidEscapes(s, i + 2)
    ELSE CharAt(s, i) \o fixInvalidEscapes(s, i + 1)

\* the character a JSON escape stands for (\b and \u are not among the
\* characters of the texts below)
Unescaped(c) ==
    IF c = "n" THEN "\n" ELSE IF c = "t" THEN "\t" ELSE IF c = "r" THEN "\r"
    ELSE IF c = "f" THEN "\f" ELSE c

\* the json decoder on the inside of a string literal, from position i on:
\* an escape is decoded, a backslash before any other character and a
\* backslash at the end (it would escape the closing quote) are errors
RECURSIVE DecodeString(_, _)
DecodeString(s, i) ==
    IF i > Len(s) THEN [ok |-> TRUE, str |-> ""]
    ELSE IF CharAt(s, i) # "\\"
    THEN [DecodeString(s, i + 1) EXCEPT !.str = CharAt(s, i) \o @]
    ELSE IF i = Len(s) \/ CharAt(s, i + 1) \notin (JSONEscapes \ {"b", "u"})
    THEN [ok |-> FALSE, str |-> ""]
    ELSE [DecodeString(s, i + 2) EXCEPT !.str = Unescaped(CharAt(s, i + 1)) \o @]

\* the text of a result as the model wrote it between the quotes, of up to
\* MaxEscText characters: backslashes, N, n and a
MaxEscText == 4

RECURSIVE EscTexts(_)
EscTexts(n) ==
    IF n = 0 THEN {""}
    ELSE EscTexts(n - 1)
           \cup {t \o c : t \in {u \in EscTexts(n - 1) : Len(u) = n - 1},
                           c \in {"\\", "N", "n", "a"}}

InitEscapes ==
    /\ NoRun
    /\ NoDoc
    /\ call \in {[fn |-> "fixInvalidEscapes", text |-> text, returned |-> FALSE,
                   value |-> [fixed |-> "", again |-> "",
                              decoded |-> [ok |-> FALSE, str |-> ""]]] :
                     text \in EscTexts(MaxEscText)}

\* extractTranslationResults: fixInvalidEscapes, then the decoder; again
\* is fixInvalidEscapes applied to its own result
ApplyFixInvalidEscapes ==
    /\ call.fn = "fixInvalidEscapes"
    /\ ~call.returned
    /\ call' = [call EXCEPT
                  !.returned = TRUE,
                  !.value = [fixed |-> fixInvalidEscapes(call.text, 1),
                             again |-> fixInvalidEscapes(
                                          fixInvalidEscapes(call.text, 1), 1),
                             decoded |-> DecodeString(
                                            fixInvalidEscapes(call.text, 1), 1)]]
    /\ UNCHANGED <<runVars, docVars>>

SpecEscapes == InitEscapes /\ [][ApplyFixInvalidEscapes]_vars

(* ------------------------ the translate command ------------------------ *)

(* runTranslate from the call of subtitle.Open on. subFile is the document  *)
(* and call holds the command's variables: sub (the Entries of the          *)
(* Subtitle() result), obtained (those entries as they were when           *)
(* Subtitle() returned), results and translateErr (what the translator      *)
(* returned), next (the position of the range loop over results, from 1),   *)
(* and err (what the command returned).                                     *)

\* the most results the translator returns
MaxResults == 2

CmdFiles ==
    {<<"srt", bytes>> : bytes \in SRTFiles \cup {""}}
        \cup {<<"vtt", bytes>> : bytes \in VTTFiles}
        \cup {<<"ass", bytes>> : bytes \in ASSFiles}

\* the results a translator can return: any index, in any order
ResultLists ==
    UNION {[1..n -> [Index : (0 - 1)..2, Text : {"Hi", "Yo"}]] : n \in 0..MaxResults}

\* fmt.Errorf("<what>: %w", err)
CmdError(what, err) == [tag |-> "wrapped", what |-> what, inner |-> err]

\* subFile, err := subtitle.Open(subtitlePath); sub := subFile.Subtitle()
InitCmd ==
    /\ NoRun
    /\ \E file \in CmdFiles, overlay \in BOOLEAN :
         /\ Open(file[1], file[2]).err = Nil
         /\ opened = file[2]
         /\ subFile = Open(file[1], file[2]).file
         /\ call = [fn |-> "runTranslate", pc |-> "parsed", overlay |-> overlay,
                    sub |-> Subtitle(Open(file[1], file[2]).file),
                    obtained |-> Subtitle(Open(file[1], file[2]).file),
                    results |-> <<>>, translateErr |-> Nil, next |-> 1,
                    err |-> Nil]
    /\ written = [exists |-> FALSE, bytes |-> ""]
    /\ lastOp = NoOp
    /\ prevOp = NoOp
    /\ nops = 0

\* "subtitle file contains no entries"
CmdNoEntries ==
    /\ call.fn = "runTranslate" /\ call.pc = "parsed"
    /\ Len(call.sub) = 0
    /\ call' = [call EXCEPT !.pc = "done",
                            !.err = BaseError("subtitle file contains no entries")]
    /\ UNCHANGED <<runVars, docVars>>

\* a translator call that is taken for a success with no results when it
\* failed
CmdTranslateWritesAnyway ==
    /\ call.fn = "runTranslate" /\ call.pc = "parsed"
    /\ Len(call.sub) > 0
    /\ \/ call' = [call EXCEPT !.pc = "apply",
                               !.translateErr = BaseError("translate")]
       \/ \E rs \in ResultLists :
            call' = [call EXCEPT !.pc = "apply", !.results = rs]
    /\ UNCHANGED <<runVars, docVars>>

\* results, err = translator.Translate(ctx, items) (or
\* TranslateWithConcurrency); if err != nil { return "translation failed" }
CmdTranslate ==
    /\ call.fn = "runTranslate" /\ call.pc = "parsed"
    /\ Len(call.sub) > 0
    /\ \/ call' = [call EXCEPT !.pc = "done",
                               !.translateErr = BaseError("translate"),
                               !.err = CmdError("translation failed",
                                                BaseError("translate"))]
       \/ \E rs \in ResultLists :
            call' = [call EXCEPT !.pc = "apply", !.results = rs]
    /\ UNCHANGED <<runVars, docVars>>

\* one round of the loop over results whose index is out of range
CmdSkipResult ==
    /\ call.fn = "runTranslate" /\ call.pc = "apply"
    /\ call.next <= Len(call.results)
    /\ LET result == call.results[call.next]
       IN  result.Index < 0 \/ result.Index >= Len(call.sub)
    /\ call' = [call EXCEPT !.next = @ + 1]
    /\ UNCHANGED <<runVars, docVars>>

\* one round of the loop over results whose index is in range. The SetText
\* of an SRTFile or a VTTFile assigns to an element of the slice that sub
\* shares with the file.
CmdApplyResult ==
    /\ call.fn = "runTranslate" /\ call.pc = "apply"
    /\ call.next <= Len(call.results)
    /\ LET result == call.results[call.next]
           text == IF call.overlay /\ subFile.format # "ass"
                   THEN result.Text \o "\n" \o call.sub[result.Index + 1].Text
                   ELSE result.Text
       IN  /\ result.Index >= 0 /\ result.Index < Len(call.sub)
           /\ subFile' = IF call.overlay /\ subFile.format = "ass"
                         THEN OverlayStored(subFile, result.Index, result.Text)
                         ELSE SetTextStored(subFile, result.Index, text)
           /\ call' = [call EXCEPT
                         !.next = @ + 1,
                         !.sub = IF subFile.format = "ass" THEN @
                                 ELSE [@ EXCEPT ![result.Index + 1].Text = text]]
    /\ UNCHANGED <<runVars, opened, written, lastOp, prevOp, nops>>

\* subFile.Write(outputPath) after the loop, and the return
CmdWrite ==
    /\ call.fn = "runTranslate" /\ call.pc = "apply"
    /\ call.next > Len(call.results)
    /\ written' = [exists |-> TRUE, bytes |-> FileBytes(subFile)]
    /\ call' = [call EXCEPT !.pc = "done"]
    /\ UNCHANGED <<runVars, opened, subFile, lastOp, prevOp, nops>>

NextCmd ==
    CmdNoEntries \/ CmdTranslate \/ CmdSkipResult \/ CmdApplyResult \/ CmdWrite

SpecCmd == InitCmd /\ [][NextCmd]_vars

(* ----------------- the Whisper verbose_json response ------------------ *)

\* the most segments of a response in these applications
MaxWhisperSegments == 2

\* the texts of a response and of its segments
WhisperTexts == {"", " ", "a", " a "}

\* whisperSegment values; the JSON numbers are seconds, kept here in
\* thousandths
WhisperSegments ==
    {[Start |-> s, End |-> s + 1500, Text |-> t] :
        s \in {0, 1500}, t \in WhisperTexts}

\* resp.RawJSON(): nothing, a text that is no JSON, or the encoding of an
\* object; a field the object leaves out or gives as null decodes to the
\* zero value, so the object is given by the struct it decodes to
RawJSONs ==
    {[tag |-> "empty"], [tag |-> "invalid"]}
    \cup {[tag |-> "object", Text |-> t, Segments |-> ss, Duration |-> d] :
            t \in WhisperTexts,
            ss \in UNION {[1..n -> WhisperSegments] :
                            n \in 0..MaxWhisperSegments},
            d \in {0 - 1000, 0, 2500}}

\* time.Duration(x * float64(time.Second)) in milliseconds: a number of
\* seconds given in thousandths is that many milliseconds
SecondsToDuration(thousandths) == thousandths

\* the loop over verboseResp.Segments
RECURSIVE KeptSegments(_)
KeptSegments(segs) ==
    IF segs = <<>> THEN <<>>
    ELSE LET text == TrimSpace(Head(segs).Text)
         IN  IF text = "" THEN KeptSegments(Tail(segs))
             ELSE <<[StartTime |-> SecondsToDuration(Head(segs).Start),
                     EndTime |-> SecondsToDuration(Head(segs).End),
                     Text |-> text]>> \o KeptSegments(Tail(segs))

\* func (t *OpenAITranscriber) parseVerboseJSONResponse(rawJSON,
\* fallbackDuration) ([]subtitle.Segment, error)
parseVerboseJSONResponse(rawJSON, fallbackDuration) ==
    IF rawJSON.tag = "empty"
    THEN [segments |-> <<>>, err |-> BaseError("empty response")]
    ELSE IF rawJSON.tag = "invalid"
    THEN [segments |-> <<>>,
          err |-> BaseError("failed to parse verbose_json response: %w")]
    ELSE IF Len(rawJSON.Segments) = 0
    THEN IF rawJSON.Text = ""
         THEN [segments |-> <<>>,
               err |-> BaseError("no segments or text in response")]
         ELSE [segments |->
                 <<[StartTime |-> 0,
                    EndTime |-> IF rawJSON.Duration > 0
                                THEN SecondsToDuration(rawJSON.Duration)
                                ELSE fallbackDuration,
                    Text |-> TrimSpace(rawJSON.Text)]>>,
               err |-> Nil]
    ELSE [segments |-> KeptSegments(rawJSON.Segments), err |-> Nil]

InitWhisper ==
    /\ NoRun
    /\ NoDoc
    /\ call \in {[fn |-> "parseVerboseJSONResponse", rawJSON |-> raw,
                   fallbackDuration |-> 5000, returned |-> FALSE,
                   value |-> [segments |-> <<>>, err |-> Nil]] :
                     raw \in RawJSONs}

ApplyParseVerboseJSONResponse ==
    /\ call.fn = "parseVerboseJSONResponse"
    /\ ~call.returned
    /\ call' = [call EXCEPT !.returned = TRUE,
                            !.value = parseVerboseJSONResponse(
                                          call.rawJSON, call.fallbackDuration)]
    /\ UNCHANGED <<runVars, docVars>>

SpecWhisper == InitWhisper /\ [][ApplyParseVerboseJSONResponse]_vars

(* ------------------- subtitles from transcript segments --------------- *)

\* NewDefaultGenerator(): MaxCharsPerLine, MaxLinesPerSub and MaxDuration
\* (in milliseconds)
MaxCharsPerLine == 42

MaxLinesPerSub == 2

MaxDuration == 7000

\* the most segments given to Generate
MaxGenSegments == 2

\* strings.Fields from position i on: cur is the word being read
RECURSIVE FieldsFrom(_, _, _)
FieldsFrom(s, i, cur) ==
    IF i > Len(s) THEN (IF cur = "" THEN <<>> ELSE <<cur>>)
    ELSE IF IsSpace(CharAt(s, i))
    THEN (IF cur = "" THEN <<>> ELSE <<cur>>) \o FieldsFrom(s, i + 1, "")
    ELSE FieldsFrom(s, i + 1, cur \o CharAt(s, i))

\* strings.Fields
Fields(s) == FieldsFrom(s, 1, "")

\* func (g *DefaultGenerator) needsSplit(text, duration) bool
needsSplit(text, duration) ==
    Len(text) > MaxCharsPerLine * MaxLinesPerSub \/ duration > MaxDuration

\* the loop of formatText over words[:len(words)-1], from i (from 0) on:
\* the bestSplit it ends with
RECURSIVE BestSplitFrom(_, _, _, _, _, _)
BestSplitFrom(words, i, currentLen, bestSplit, bestDiff, middle) ==
    IF i >= Len(words) - 1 THEN bestSplit
    ELSE LET len == currentLen + Len(words[i + 1]) + (IF i > 0 THEN 1 ELSE 0)
             diff == IF len - middle < 0 THEN middle - len ELSE len - middle
         IN  IF diff < bestDiff
             THEN BestSplitFrom(words, i + 1, len, i + 1, diff, middle)
             ELSE BestSplitFrom(words, i + 1, len, bestSplit, bestDiff, middle)

\* func (g *DefaultGenerator) formatText(text string) string
formatText(text) ==
    LET trimmed == TrimSpace(text)
        runeCount == Len(trimmed)
        words == Fields(trimmed)
        bestSplit == BestSplitFrom(words, 0, 0, 0, runeCount, runeCount \div 2)
    IN  IF runeCount <= MaxCharsPerLine THEN trimmed
        ELSE IF Len(words) < 2 THEN trimmed
        ELSE IF bestSplit > 0 /\ bestSplit < Len(words)
        THEN Join(SubSeq(words, 1, bestSplit), " ") \o "\n"
                \o Join(SubSeq(words, bestSplit + 1, Len(words)), " ")
        ELSE trimmed

\* a splitting loop that gives every piece the same duration, the last
\* one too
RECURSIVE SplitLoopEven(_, _, _, _, _, _, _)
SplitLoopEven(seg, startIndex, words, i, numSplits, wordsPerSplit, currentStart) ==
    IF ~(i < numSplits /\ Len(words) > 0) THEN <<>>
    ELSE LET endIdx == Min(wordsPerSplit, Len(words))
             rest == SubSeq(words, endIdx + 1, Len(words))
             currentEnd == currentStart
                             + (seg.EndTime - seg.StartTime) \div numSplits
         IN  <<Entry(startIndex + i, currentStart, currentEnd,
                     formatText(Join(SubSeq(words, 1, endIdx), " ")))>>
                \o SplitLoopEven(seg, startIndex, rest, i + 1, numSplits,
                                 wordsPerSplit, currentEnd)

\* the loop of splitSegment from i on, words being the words not yet taken
RECURSIVE SplitLoop(_, _, _, _, _, _, _)
SplitLoop(seg, startIndex, words, i, numSplits, wordsPerSplit, currentStart) ==
    IF ~(i < numSplits /\ Len(words) > 0) THEN <<>>
    ELSE LET endIdx == Min(wordsPerSplit, Len(words))
             rest == SubSeq(words, endIdx + 1, Len(words))
             currentEnd == IF Len(rest) = 0 THEN seg.EndTime
                           ELSE currentStart
                                  + (seg.EndTime - seg.StartTime) \div numSplits
         IN  <<Entry(startIndex + i, currentStart, currentEnd,
                     formatText(Join(SubSeq(words, 1, endIdx), " ")))>>
                \o SplitLoop(seg, startIndex, rest, i + 1, numSplits,
                             wordsPerSplit, currentEnd)

\* func (g *DefaultGenerator) splitSegment(seg Segment, startIndex int)
splitSegment(seg, startIndex) ==
    LET text == TrimSpace(seg.Text)
        words == Fields(text)
        totalDuration == seg.EndTime - seg.StartTime
        maxChars == MaxCharsPerLine * MaxLinesPerSub
        charSplits == (Len(text) + maxChars - 1) \div maxChars
        durationSplits == totalDuration \div MaxDuration + 1
        numSplits == IF durationSplits > (IF charSplits < 1 THEN 1 ELSE charSplits)
                     THEN durationSplits
                     ELSE IF charSplits < 1 THEN 1 ELSE charSplits
        wordsPerSplit == (Len(words) + numSplits - 1) \div numSplits
    IN  IF Len(words) = 0 THEN <<>>
        ELSE SplitLoop(seg, startIndex, words, 0, numSplits, wordsPerSplit,
                       seg.StartTime)

\* the loop of Generate over the segments, index being the next index
RECURSIVE GenerateFrom(_, _)
GenerateFrom(segments, index) ==
    IF segments = <<>> THEN <<>>
    ELSE LET seg == Head(segments)
             text == TrimSpace(seg.Text)
         IN  IF text = "" THEN GenerateFrom(Tail(segments), index)
             ELSE IF needsSplit(text, seg.EndTime - seg.StartTime)
             THEN splitSegment(seg, index)
                    \o GenerateFrom(Tail(segments),
                                    index + Len(splitSegment(seg, index)))
             ELSE <<Entry(index, seg.StartTime, seg.EndTime, formatText(text))>>
                    \o GenerateFrom(Tail(segments), index + 1)

\* func (g *DefaultGenerator) Generate(segments []Segment) (*Subtitle,
\* error): the Entries of the result
Generate(segments) == GenerateFrom(segments, 1)

\* a text of nine words and 89 characters
LongText ==
    "aaaaaaaa1 aaaaaaaa2 aaaaaaaa3 aaaaaaaa4 aaaaaaaa5 aaaaaaaa6 aaaaaaaa7 aaaaaaaa8 aaaaaaaa9"

\* segments as a transcriber returns them: the end not before the start;
\* blank texts, texts of one to five words, and a text longer than two
\* lines; durations below and above MaxDuration
GenSegments ==
    {[StartTime |-> t[1], EndTime |-> t[2], Text |-> text] :
        t \in {<<0, 2000>>, <<1000, 16000>>, <<0, 22001>>},
        text \in {"", "  ", "a", " a b  c d ", "a b c d e", LongText}}

InitGenerate ==
    /\ NoRun
    /\ NoDoc
    /\ call \in {[fn |-> "Generate", segments |-> segs, returned |-> FALSE,
                   value |-> <<>>] :
                     segs \in UNION {[1..n -> GenSegments] :
                                       n \in 0..MaxGenSegments}}

ApplyGenerate ==
    /\ call.fn = "Generate"
    /\ ~call.returned
    /\ call' = [call EXCEPT !.returned = TRUE,
                            !.value = Generate(call.segments)]
    /\ UNCHANGED <<runVars, docVars>>

SpecGenerate == InitGenerate /\ [][ApplyGenerate]_vars

(* ====================================================================== *)
(*                               properties                               *)
(* ====================================================================== *)

Returned == phase = "returned"

\* the unit at position p was processed and its call succeeded / failed
Succeeded(p) == out[p] # Nil /\ out[p].Error = Nil

Failed(p) == out[p] # Nil /\ out[p].Error # Nil

AllSucceeded == \A p \in Units : Succeeded(p)

\* the positions of received whose result carries an error
FailedArrivals == {i \in 1..Len(received) : received[i].Error # Nil}

\* the payloads of the units of P, concatenated in ascending unit index
RECURSIVE ConcatAscending(_)
ConcatAscending(P) ==
    IF P = {} THEN <<>>
    ELSE LET p == CHOOSE x \in P : \A y \in P : UnitIndex(x) <= UnitIndex(y)
         IN  out[p].Payload \o ConcatAscending(P \ {p})

ErrorPrefix == IF kind = "transcribe" THEN "chunk" ELSE "batch"

(* C1: when every chunk's transcription succeeds, TranscribeWithChunks     *)
(* returns no error and the concatenation of the per-chunk segment lists   *)
(* in ascending chunk Index, whatever the concurrency, the order of the    *)
(* chunk list and the order in which the workers complete: the value is a  *)
(* function of the chunks' own results alone, so it is the one obtained    *)
(* with concurrency 1.                                                     *)
C1_OrderedMerge ==
    (kind = "transcribe" /\ Returned /\ AllSucceeded)
        => /\ ret.err = Nil
           /\ ret.result.Segments = ConcatAscending(Units)

\* three chunks, more than one worker, all succeeded, and the results
\* reached the collector in an order that is not the index order
C1_Witness ==
    /\ kind = "transcribe" /\ Returned /\ AllSucceeded
    /\ NUnits = 3 /\ spawned > 1
    /\ Len(received) = 3
    /\ received[1].Index > received[2].Index

(* C2: if at least one of K >= 2 units fails, the run returns one error    *)
(* (the wrapped error of one unit) and a nil result: the results of the    *)
(* units that succeeded are not returned.                                  *)
C2_FailFastResult ==
    (Returned /\ NUnits >= 2 /\ \E p \in Units : Failed(p))
        => /\ ret.err # Nil
           /\ ret.err.tag = "wrapped"
           /\ ret.result = NilResult

\* a run in which one unit failed and another succeeded and was collected
C2_Witness ==
    /\ Returned /\ NUnits >= 2
    /\ \E p \in Units : Failed(p)
    /\ results # <<>>

\* a unit's call has returned an error and cancellation was triggered
FailedAndCancelled == ctxDone /\ \E p \in Units : Failed(p)

ReadyWorkers == {ws \in BagToSet(workers) : ws.pc = "ready"}

(* C3, as claimed: once a unit's call has returned an error and            *)
(* cancellation has been triggered, no worker begins the provider call of  *)
(* any further unit.                                                       *)
C3_NoCallAfterCancel ==
    [][FailedAndCancelled => calls' = calls]_vars

(* C3, amended: once a unit's call has returned an error and cancellation  *)
(* has been triggered, no worker passes its cancellation check any more,   *)
(* so a unit still with the feeder, or received by a worker that has not   *)
(* yet checked ctx.Err(), is never invoked; the only calls that can still  *)
(* begin are those of workers that had passed the check before the         *)
(* cancellation (the check and the call are separate steps).               *)
C3_NoCheckPassedAfterCancel ==
    [][FailedAndCancelled =>
         /\ \A p \in Units :
              calls'[p] # calls[p] =>
                  [pc |-> "ready", unit |-> p, res |-> Nil] \in ReadyWorkers
         /\ {ws \in BagToSet(workers') : ws.pc = "ready"} \subseteq ReadyWorkers
      ]_vars

\* a failed run has returned, and a unit that a worker had received (it is
\* among the first fed units) was never invoked, as was a unit never fed
C3_Witness ==
    /\ Returned /\ FailedAndCancelled
    /\ \E p \in Units : p <= fed /\ calls[p] = 0
    /\ fed < NUnits

\* func (t *GeminiTranslator) Translate(ctx, items), the sequential path,
\* with the provider answering batch p as it did in the run (resp[p])
RECURSIVE TranslateLoop(_, _)
TranslateLoop(p, allResults) ==
    IF p > Len(Batches) THEN [result |-> SortByIndex(allResults), err |-> Nil]
    ELSE LET b == translateBatch(Batches[p], resp[p])
         IN  IF b.Error # Nil
             THEN [result |-> <<>>, err |-> WrapError("batch", p - 1, b.Error)]
             ELSE TranslateLoop(p + 1, allResults \o b.Results)

Translate ==
    IF Len(items) = 0 THEN [result |-> <<>>, err |-> Nil]
    ELSE IF Len(items) <= batchSize(optBatchSize)
    THEN [result |-> translateBatch(items, resp[1]).Results,
          err |-> translateBatch(items, resp[1]).Error]
    ELSE TranslateLoop(1, <<>>)

(* C4: when the items span more than one batch and every batch succeeds,   *)
(* TranslateWithConcurrency returns what sequential Translate returns for  *)
(* the same items and the same provider answers, for every concurrency     *)
(* and every order in which the batches complete.                          *)
C4_SameAsSequential ==
    (kind = "translate" /\ Returned /\ NUnits > 1 /\ AllSucceeded)
        => ret = Translate

\* every batch succeeded, a later batch reached the collector before an
\* earlier one, and one batch's results came back in reverse order
C4_Witness ==
    /\ kind = "translate" /\ Returned /\ NUnits > 1 /\ AllSucceeded
    /\ Len(received) = NUnits
    /\ received[1].Index > received[2].Index
    /\ \E p \in Units : out[p].Payload # Translated(Batches[p])

(* C5: when units fail, the returned error is built from the first failed  *)
(* result the collector received (arrival order): it wraps that unit's     *)
(* error and names that unit's index; later failures are dropped.          *)
C5_FirstArrivedError ==
    (Returned /\ FailedArrivals # {})
        => LET i == CHOOSE x \in FailedArrivals :
                        \A y \in FailedArrivals : x <= y
           IN  ret.err = WrapError(ErrorPrefix, received[i].Index,
                                   received[i].Error)

\* two failures were received, the first with the higher unit index
C5_Witness ==
    /\ Returned
    /\ \E i, j \in FailedArrivals : i < j /\ received[i].Index > received[j].Index

(* C6: if every provider call returns, the run returns, whether units     *)
(* succeed or fail, and when it has returned every worker of the pool has  *)
(* exited: none is inside a call, waiting on the work queue or sending.    *)
C6_ReturnsWithPoolExited ==
    /\ <>Returned
    /\ [](Returned => CountAt("exited") = spawned)

\* a pool of several workers has returned after a failure with a unit
\* left unfed
C6_Witness ==
    /\ Returned /\ spawned > 1 /\ fed < NUnits
    /\ \E p \in Units : Failed(p)
    /\ CountAt("exited") = spawned

\* the provider calls in flight
InFlight == CountAt("calling") + (IF phase = "inline" THEN 1 ELSE 0)

(* C7: at every moment the number of provider calls in flight is at most   *)
(* the given concurrency, a non-positive concurrency counting as 3.        *)
C7_BoundedInFlight ==
    InFlight <= (IF concurrency <= 0 THEN DefaultConcurrency ELSE concurrency)

\* concurrency 0: three calls are in flight at once
C7_Witness == concurrency = 0 /\ InFlight = DefaultConcurrency

\* what the pool returns for a run of the single unit at position p, given
\* what the unit's call returned
ExpectedPooled(p) ==
    IF Failed(p)
    THEN [result |-> NilResult,
          err |-> WrapError(ErrorPrefix, UnitIndex(p), out[p].Error)]
    ELSE [result |-> IF kind = "transcribe"
                     THEN [Segments |-> out[p].Payload,
                           Duration |-> chunks[Len(chunks)].EndTime]
                     ELSE SortByIndex(out[p].Payload),
          err |-> Nil]

C9_EmptyRun ==
    NUnits = 0
        => /\ spawned = 0
           /\ workers = EmptyBag
           /\ phase \in {"entry", "returned"}
           /\ Returned => ret = EmptyReturn

\* a run of TranslateWithConcurrency on no item has returned
C9_Witness == Returned /\ kind = "translate" /\ NUnits = 0 /\ ret.result = <<>>

(* C10: translateBatch succeeds only if the number of recovered results    *)
(* equals the number of items of the batch: a different count is an error, *)
(* and a successful batch result has as many results as the batch items.   *)
C10_CountChecked ==
    (call # Nil /\ call.returned)
        => /\ call.value.Error = Nil
                => /\ call.response.tag = "text"
                   /\ Len(call.value.Results) = Len(call.batch)
           /\ (call.response.tag = "text"
                 /\ Len(call.response.recovered) # Len(call.batch))
                => call.value.Error # Nil

\* one result too many was recovered, and the batch failed
C10_Witness ==
    /\ call # Nil /\ call.returned
    /\ call.response.tag = "text"
    /\ Len(call.response.recovered) = Len(call.batch) + 1
    /\ call.value.Error # Nil

(* C11: the items are split into contiguous batches in input order: with   *)
(* batch size B (DefaultBatchSize when the configured BatchSize is not     *)
(* positive) every batch but the last has exactly B items, no batch is     *)
(* empty, and the batches concatenated in batch order are the items.       *)
C11_ContiguousBatches ==
    (kind = "translate" /\ phase # "entry")
        => LET B == batchSize(optBatchSize)
           IN  /\ optBatchSize <= 0 => B = DefaultBatchSize
               /\ optBatchSize > 0 => B = optBatchSize
               /\ \A p \in 1..Len(Batches) :
                     /\ Len(Batches[p]) >= 1
                     /\ Len(Batches[p]) <= B
                     /\ p < Len(Batches) => Len(Batches[p]) = B
               /\ Flatten(Batches) = items

\* a run over three items in batches of two: a full batch and a short last
\* one, both handed to workers
C11_Witness ==
    /\ kind = "translate" /\ phase = "collect"
    /\ optBatchSize = 2 /\ Len(items) = 3
    /\ Len(Batches) = 2 /\ Len(Batches[2]) = 1
    /\ \A p \in Units : out[p] # Nil

(* C12: TranscribeChunk returns one segment per segment of the provider's  *)
(* result for the chunk, in the same order, each with start and end equal  *)
(* to the provider's chunk-local start and end plus the chunk's StartTime,  *)
(* and with its text unchanged.                                            *)
C12_OffsetSegments ==
    (call # Nil /\ call.fn = "TranscribeChunk" /\ call.returned
       /\ call.response.tag = "result")
        => LET in == call.response.Segments
               res == call.value.Segments
           IN  /\ call.value.Error = Nil
               /\ Len(res) = Len(in)
               /\ \A i \in 1..Len(in) :
                     /\ res[i].StartTime = in[i].StartTime + call.chunk.StartTime
                     /\ res[i].EndTime = in[i].EndTime + call.chunk.StartTime
                     /\ res[i].Text = in[i].Text

\* two segments of a chunk that does not start at 0 were offset
C12_Witness ==
    /\ call # Nil /\ call.fn = "TranscribeChunk" /\ call.returned
    /\ call.response.tag = "result"
    /\ Len(call.response.Segments) = 2
    /\ call.chunk.StartTime > 0
    /\ call.value.Segments[2].EndTime
          = call.response.Segments[2].EndTime + call.chunk.StartTime

\* position i of the text is one where a JSON value decodes and every
\* outcome of extracting records from it validates and is non-empty
Candidate(rk, text, i) ==
    /\ text[i] \in {"[", "{"}
    /\ DecodeValue(text, i).ok
    /\ \E o \in tryExtract(rk, DecodeValue(text, i).val) :
          o.ok /\ Len(o.recs) > 0

(* C13: response recovery returns the records of the first position, in   *)
(* scan order, at which a JSON value decodes, validates and is non-empty,  *)
(* whatever prose or values that do not validate come before or after it;  *)
(* it fails if and only if no position is such a candidate.                *)
C13_FirstCandidateWins ==
    (call # Nil /\ call.fn = "extract" /\ call.returned)
        => LET cands == {i \in 1..Len(call.text) :
                           Candidate(call.rk, call.text, i)}
           IN  /\ call.value.ok <=> cands # {}
               /\ call.value.ok
                    => \E i \in cands :
                         /\ \A j \in cands : i <= j
                         /\ call.value
                              \in tryExtract(call.rk,
                                             DecodeValue(call.text, i).val)
                         /\ Len(call.value.recs) > 0
                         /\ validateRecords(call.rk, call.value.recs)
               /\ ~call.value.ok => call.value.recs = <<>>
               \* no JSON at all, an empty array, records that all have an
               \* empty text, and an array cut short
               /\ call.text \in {<<>>, <<"so">>, <<"[", "]">>,
                                  <<"[", "{", "start:", "0", "text:", "''",
                                    "}", "]">>,
                                  <<"[", "{", "text:", "'hi'", "}">>}
                    => ~call.value.ok

\* prose, an array that decodes but whose records all have empty text,
\* then an array that validates: the second array's record was returned
C13_Witness ==
    /\ call # Nil /\ call.fn = "extract" /\ call.returned
    /\ call.rk = "translation"
    /\ call.text = <<"so", "[", "{", "start:", "1", "text:", "''", "}", "]",
                      "[", "{", "text:", "'yo'", "}", "]", "so">>
    /\ call.value.ok
    /\ call.value.recs = <<[Text |-> "yo", Start |-> 0, End |-> 0, Index |-> 0]>>

\* the dialogues as parseASSFile read them from the file that was opened
Parsed == parseASSFile(opened).dialogues

\* text with its line breaks written as \N
Escaped(text) == ReplaceAll(text, "\n", "\\N")

\* the last call was this one and it returned no error
Called(op) == lastOp.op = op /\ lastOp.err = Nil

\* the step is a call of one of the operations
IsCall(ops) == nops' = nops + 1 /\ lastOp'.op \in ops

\* line up to and including its k-th comma (all of it if it has fewer)
RECURSIVE ThroughCommas(_, _)
ThroughCommas(line, k) ==
    IF k = 0 \/ IndexOf(line, ",") = 0 THEN (IF k = 0 THEN "" ELSE line)
    ELSE SubSeq(line, 1, IndexOf(line, ","))
         \o ThroughCommas(From(line, IndexOf(line, ",") + 1), k - 1)

\* the lines of an ASS file with the Text field of every Dialogue line
\* taken out; k is the number of fields before the Text field
WithoutDialogueText(bytes, k) ==
    LET lines == ScanLines(bytes)
    IN  [i \in 1..Len(lines) |->
            IF HasPrefix(TrimSpace(lines[i]), "Dialogue:")
            THEN ThroughCommas(lines[i], k) ELSE lines[i]]

(* C14: an ASS document written right after it was parsed, no entry        *)
(* mutated, has every byte outside the dialogue Text fields as the file    *)
(* it was parsed from: script info, styles, other sections, the Format     *)
(* line, the other fields of every Dialogue line, the other event lines.   *)
C14_RoundTrip ==
    (subFile.format = "ass" /\ Called("Write") /\ prevOp.op = "Open")
        => WithoutDialogueText(written.bytes, subFile.textColumnIndex)
             = WithoutDialogueText(opened, subFile.textColumnIndex)

(* C15: SetTextWithOverlay(i, t) stores leadingTags + t with line breaks   *)
(* as \N + "\N" + the tag-stripped text of the entry as parsed from the    *)
(* file, whatever SetText and SetTextWithOverlay calls came before.        *)
C15_OverlayKeepsOriginal ==
    (subFile.format = "ass" /\ Called("SetTextWithOverlay"))
        => subFile.dialogues[lastOp.index + 1].Text
             = Parsed[lastOp.index + 1].LeadingTags \o Escaped(lastOp.text)
                 \o "\\N" \o Parsed[lastOp.index + 1].TextWithoutTags

(* C16: after a SetText on an ASS entry, whatever calls came before, the   *)
(* stored text is the leading-tag run extracted at parse time followed by  *)
(* the text given with every line break written as \N, and the entry's     *)
(* leading-tag run is still the one extracted at parse time.               *)
C16_SetTextKeepsLeadingTags ==
    (subFile.format = "ass" /\ Called("SetText"))
        => /\ subFile.dialogues[lastOp.index + 1].Text
                = Parsed[lastOp.index + 1].LeadingTags \o Escaped(lastOp.text)
           /\ \A i \in 1..Len(subFile.dialogues) :
                 subFile.dialogues[i].LeadingTags = Parsed[i].LeadingTags

\* a second SetText on the tagged entry, after an overlay on it
C16_Witness ==
    /\ subFile.format = "ass" /\ Called("SetText")
    /\ prevOp.op = "SetTextWithOverlay" /\ prevOp.err = Nil
    /\ prevOp.index = lastOp.index
    /\ lastOp.text = "a\nb"
    /\ Parsed[lastOp.index + 1].LeadingTags = "{\\pos(1,2)}{\\an8}"
    /\ subFile.dialogues[lastOp.index + 1].Text = "{\\pos(1,2)}{\\an8}a\\Nb"

(* C17: SetText is idempotent for every format: a SetText(p, t) right      *)
(* after a SetText(p, t) leaves the document as it is.                     *)
C17_SetTextIdempotent ==
    [][(IsCall({"SetText"}) /\ lastOp' = lastOp)
          => (subFile' = subFile /\ written' = written /\ opened' = opened)]_vars

\* the same SetText was made twice on an ASS entry, and it took effect
C17_Witness ==
    /\ subFile.format = "ass" /\ Called("SetText") /\ prevOp = lastOp
    /\ lastOp.text = "Hi"
    /\ subFile.dialogues[lastOp.index + 1].TextWithoutTags = "Hi"

\* the fields of an entry other than its text
NonTextFields(f, j) ==
    IF f.format = "ass"
    THEN <<f.dialogues[j].FieldsBefore, f.dialogues[j].LeadingTags,
           f.dialogues[j].OriginalLine>>
    ELSE <<f.entries[j].Index, f.entries[j].StartTime, f.entries[j].EndTime>>

\* the entry at position j (from 1)
EntryAt(f, j) == IF f.format = "ass" THEN f.dialogues[j] ELSE f.entries[j]

\* the document apart from its entries
OutsideEntries(f) ==
    IF f.format = "ass"
    THEN <<f.preEventsLines, f.formatLine, f.formatColumns, f.textColumnIndex,
           f.nonDialogueEventLines>>
    ELSE <<>>

(* C18: SetText and SetTextWithOverlay with a position below 0 or at or    *)
(* above the number of entries return an error and leave the document      *)
(* unchanged; with a valid position they return no error and change only   *)
(* the text of the entry at that position: the number of entries, every    *)
(* other entry, and the timestamps and other fields of all entries stay.   *)
C18_OnlyTextOfEntry ==
    [][IsCall({"SetText", "SetTextWithOverlay"})
          => LET i == lastOp'.index
                 n == NumEntries(subFile)
             IN  IF i < 0 \/ i >= n
                 THEN lastOp'.err # Nil /\ subFile' = subFile
                 ELSE /\ lastOp'.err = Nil
                      /\ subFile'.format = subFile.format
                      /\ NumEntries(subFile') = n
                      /\ OutsideEntries(subFile') = OutsideEntries(subFile)
                      /\ \A j \in 1..n :
                            /\ NonTextFields(subFile', j) = NonTextFields(subFile, j)
                            /\ j # i + 1 => EntryAt(subFile', j) = EntryAt(subFile, j)]_vars

\* a call at the position len(entries) failed, after one at the last
\* position changed that entry
C18_Witness ==
    /\ subFile.format = "srt"
    /\ lastOp.op = "SetText" /\ lastOp.err # Nil
    /\ lastOp.index = NumEntries(subFile)
    /\ prevOp.op = "SetText" /\ prevOp.err = Nil
    /\ prevOp.index = NumEntries(subFile) - 1
    /\ subFile.entries[prevOp.index + 1].Text = prevOp.text

(* C19: for an SRT document with n entries, SetText(p, t), then Write,     *)
(* then Open of the written file gives n entries: entry p with text t,     *)
(* every other entry with the text it had, all start and end times as      *)
(* before, and the indices 1..n in order.                                  *)
C19_SRTWriteReopen ==
    [][(/\ subFile.format = "srt"
        /\ prevOp.op = "SetText" /\ prevOp.err = Nil
        /\ Called("Write")
        /\ IsCall({"Open"}))
          => LET old == subFile.entries
                 new == subFile'.entries
             IN  /\ Len(new) = Len(old)
                 /\ new[prevOp.index + 1].Text = prevOp.text
                 /\ \A j \in 1..Len(old) :
                       /\ new[j].Text = old[j].Text
                       /\ new[j].StartTime = old[j].StartTime
                       /\ new[j].EndTime = old[j].EndTime
                       /\ new[j].Index = j]_vars

\* s is one {...} group: "{", characters other than "}", and "}"
IsGroup(s) ==
    /\ Len(s) >= 2
    /\ CharAt(s, 1) = "{"
    /\ IndexOf(s, "}") = Len(s)

\* s is a run of adjacent groups (the empty run included)
RECURSIVE IsTagRun(_)
IsTagRun(s) ==
    \/ s = ""
    \/ \E k \in 2..Len(s) : IsGroup(SubSeq(s, 1, k)) /\ IsTagRun(From(s, k + 1))

(* C20: leading-tag extraction splits a text into (tags, content) with     *)
(* tags + content = text; tags is the longest run of adjacent {...} groups *)
(* at the start of the text, empty when the text does not start with a     *)
(* group; content does not start with a group, and groups after its first  *)
(* character stay in it.                                                   *)
C20_LeadingTags ==
    (call.fn = "extractLeadingTags" /\ call.returned)
        => LET tags == call.value[1]
               content == call.value[2]
           IN  /\ tags \o content = call.text
               /\ IsTagRun(tags)
               /\ \A k \in 0..Len(call.text) :
                     IsTagRun(SubSeq(call.text, 1, k)) => k <= Len(tags)
               /\ (~\E k \in 2..Len(call.text) : IsGroup(SubSeq(call.text, 1, k)))
                     => tags = ""
               /\ ~\E k \in 2..Len(content) : IsGroup(SubSeq(content, 1, k))

\* two groups were taken and the group after the "a" stayed in the content
C20_Witness ==
    /\ call.fn = "extractLeadingTags" /\ call.returned
    /\ call.text = "{}{}a{}"
    /\ call.value = <<"{}{}", "a{}">>

\* the format the extension of the path stands for, "none" if it stands
\* for none
FormatOf(path) ==
    IF HasSuffix(ToLower(path), ".srt") THEN "srt"
    ELSE IF HasSuffix(ToLower(path), ".vtt") THEN "vtt"
    ELSE IF HasSuffix(ToLower(path), ".ass") \/ HasSuffix(ToLower(path), ".ssa")
    THEN "ass"
    ELSE "none"

\* Open(call.path) has returned
Opened == call.fn = "Open" /\ call.returned

\* the numbers of the lines that have an arrow and are no timestamp line
\* of the format
MalformedTimestamps(format, bytes) ==
    LET lines == ScanLines(bytes)
    IN  {k \in 1..Len(lines) :
            /\ \E i \in 1..Len(lines[k]) : Slice(lines[k], i, i + 2) = "-->"
            /\ ~FindTimestamp(lines[k], IF format = "srt" THEN "," ELSE ".").ok
            /\ format = "vtt" => ~FindShortTimestamp(lines[k]).ok}

(* C21: a malformed timestamp in an SRT or VTT file makes Open fail with   *)
(* an error that names the offending line; the line is not taken as text   *)
(* and no entry with zero times comes of it.                               *)
C21_MalformedTimestampFails ==
    (/\ Opened
     /\ FormatOf(call.path) \in {"srt", "vtt"}
     /\ MalformedTimestamps(FormatOf(call.path), call.bytes) # {})
        => /\ call.value.err # Nil
           /\ call.value.err.tag = "wrapped"
           /\ call.value.err.index
                 \in MalformedTimestamps(FormatOf(call.path), call.bytes)

(* C23: Open selects the format from the extension of the path compared    *)
(* without regard to case (.srt, .vtt, .ass or .ssa) and returns what the  *)
(* parser of that format returns; for any other extension it returns no    *)
(* file and an 'unsupported' error, whatever the file holds.               *)
C23_FormatFromExtension ==
    Opened
        => IF FormatOf(call.path) # "none"
           THEN call.value = Open(FormatOf(call.path), call.bytes)
           ELSE /\ call.value.file = NoFile
                /\ call.value.err # Nil
                /\ call.value.err.msg = "unsupported subtitle format: %s"

\* a file that parses as SRT was refused for its extension
C23_Witness ==
    /\ Opened
    /\ call.path = "a.srt.bak"
    /\ Open("srt", call.bytes).file.entries # <<>>
    /\ call.value.file = NoFile
    /\ call.value.err.msg = "unsupported subtitle format: %s"

\* the numbers of the Dialogue lines of a file
DialogueLines(bytes) ==
    LET lines == ScanLines(bytes)
    IN  {k \in 1..Len(lines) : HasPrefix(TrimSpace(lines[k]), "Dialogue:")}

\* what follows "Dialogue:" on line k
DialogueContent(bytes, k) ==
    TrimSpace(TrimPrefix(TrimSpace(ScanLines(bytes)[k]), "Dialogue:"))

\* the number of columns of the Format line of a file that has one
NumColumns(bytes) ==
    LET lines == ScanLines(bytes)
        k == CHOOSE j \in 1..Len(lines) : HasPrefix(TrimSpace(lines[j]), "Format:")
    IN  Len(Split(lines[k], ","))

\* the k-th smallest member of a set of numbers
RECURSIVE Nth(_, _)
Nth(S, k) ==
    LET m == CHOOSE x \in S : \A y \in S : x <= y
    IN  IF k = 1 THEN m ELSE Nth(S \ {m}, k - 1)

(* C27: in an ASS file whose only section is [Events], every parsed        *)
(* Dialogue has as many fields as the Format line has columns N: the       *)
(* fields up to the first N-1 commas and a last field with all that        *)
(* follows; a Dialogue line with fewer than N fields makes Open fail with  *)
(* an error that names the number of the line.                             *)
C27_FieldCount ==
    (/\ Opened
     /\ FormatOf(call.path) = "ass"
     /\ \E j \in 1..Len(ScanLines(call.bytes)) :
           HasPrefix(ScanLines(call.bytes)[j], "Format:"))
        => LET n == NumColumns(call.bytes)
               short == {k \in DialogueLines(call.bytes) :
                           Len(Split(DialogueContent(call.bytes, k), ",")) < n}
           IN  IF short # {}
               THEN /\ call.value.err # Nil
                    /\ call.value.err.tag = "wrapped"
                    /\ call.value.err.index = Nth(short, 1)
               ELSE call.value.err = Nil
                      => \A j \in 1..Len(call.value.file.dialogues) :
                           LET d == call.value.file.dialogues[j]
                               all == Split(DialogueContent(call.bytes,
                                              Nth(DialogueLines(call.bytes), j)), ",")
                               t == call.value.file.textColumnIndex
                           IN  /\ d.FieldsBefore = SubSeq(all, 1, t)
                               /\ t = n - 1
                                     => d.Text = Join(SubSeq(all, n, Len(all)), ",")

\* the text of a Dialogue line with the fields `all` when column t (from
\* 0) of n columns is the Text column: the fields after the first t that
\* are not needed for the columns after Text
OverflowText(all, n, t) ==
    Join(SubSeq(all, t + 1, Len(all) - (n - 1 - t)), ",")

(* C28: wherever the Format line has its Text column, the Text of a parsed *)
(* Dialogue is the complete dialogue text with its commas, and a Write     *)
(* right after Open emits every Dialogue line with all its fields, those   *)
(* in columns after Text included.                                         *)
C28_TextColumnAnywhere ==
    (subFile.format = "ass" /\ lastOp.err = Nil
       /\ \/ lastOp.op = "Open"
          \/ lastOp.op = "Write" /\ prevOp.op = "Open")
        => \A j \in 1..Len(subFile.dialogues) :
             LET k == Nth(DialogueLines(opened), j)
                 all == Split(DialogueContent(opened, k), ",")
                 n == Len(subFile.formatColumns)
             IN  Len(all) >= n
                   => /\ subFile.dialogues[j].Text
                           = OverflowText(all, n, subFile.textColumnIndex)
                      /\ lastOp.op = "Write"
                           => ScanLines(written.bytes)
                                  [Nth(DialogueLines(written.bytes), j)]
                                = "Dialogue: " \o DialogueContent(opened, k)

(* C30: for every duration of a whole number of milliseconds, the SRT and  *)
(* the VTT string the formatter makes of it parse back to the duration;    *)
(* the ASS formatter writes (milliseconds mod 1000) / 10 centiseconds and  *)
(* its string parses back to the duration rounded down to 10 ms.           *)
C30_TimestampsExact ==
    (call.fn = "time" /\ call.returned)
        => /\ call.value.srt = call.d
           /\ call.value.vtt = call.d
           /\ call.value.ass = call.d - (call.d % 10)
           /\ Slice(call.value.assText, Len(call.value.assText) - 1,
                    Len(call.value.assText))
                 = ZeroPad(Itoa((call.d % 1000) \div 10), 2)

\* validateSegments or validateResults has returned
Validated == call.fn = "validate" /\ call.returned

(* C24 as stated: segment validation accepts exactly when some record has  *)
(* a non-empty text or a nonzero start or a nonzero end; translation       *)
(* validation accepts exactly when some record has a non-empty text.       *)
C24_NonzeroTimesAccepted ==
    Validated
        => (call.value
              <=> \E i \in 1..Len(call.recs) :
                    \/ call.recs[i].Text # ""
                    \/ /\ call.rk = "segment"
                       /\ (call.recs[i].Start # 0 \/ call.recs[i].End # 0))

(* C24, amended: segment validation accepts exactly when some record has   *)
(* a non-empty text or a start above zero or an end above zero, so an      *)
(* empty or nil slice and records with an empty text and no time above     *)
(* zero are rejected; translation validation accepts exactly when some     *)
(* record has a non-empty text.                                            *)
C24_PositiveTimesAccepted ==
    Validated
        => IF call.rk = "segment"
           THEN call.value
                  <=> ~\A i \in 1..Len(call.recs) :
                         /\ call.recs[i].Text = ""
                         /\ call.recs[i].Start <= 0
                         /\ call.recs[i].End <= 0
           ELSE call.value
                  <=> ~\A i \in 1..Len(call.recs) : call.recs[i].Text = ""

\* segments with an empty text whose only nonzero time is negative were
\* rejected
C24_Witness ==
    /\ Validated
    /\ call.rk = "segment"
    /\ Len(call.recs) = 2
    /\ \A i \in 1..2 : call.recs[i].Text = "" /\ call.recs[i].End = 0
    /\ call.recs[1].Start = 0
    /\ call.recs[2].Start = 0 - 1
    /\ ~call.value

\* the records of the field the decoded object keeps for a key, if they
\* validate
FieldRecords(rk, text, key) ==
    LET obj == DecodeValue(text, 1).val
    IN  IF HasMember(obj, key) /\ GoodField(rk, Member(obj, key))
        THEN {UnmarshalRecords(rk, Member(obj, key))} ELSE {}

\* the known wrapper keys of a record kind, in priority order
PriorityKeys(rk) ==
    IF rk = "segment"
    THEN <<"segments:", "transcript:", "transcription:", "results:", "data:">>
    ELSE <<"results:", "translations:", "data:", "items:">>

(* C25: from a decoded object, recovery takes the records of the first     *)
(* known wrapper key, in priority order, whose value validates; only if    *)
(* no known key validates does it take a validating value of some other    *)
(* field; with no validating field it extracts nothing.                    *)
C25_WrapperKeyPriority ==
    (call.fn = "tryExtract" /\ call.returned)
        => LET keys == PriorityKeys(call.rk)
               good == {k \in 1..Len(keys) :
                          FieldRecords(call.rk, call.text, keys[k]) # {}}
               others == UNION {FieldRecords(call.rk, call.text, key) :
                                  key \in FieldKeys}
           IN  IF good # {}
               THEN \E k \in good :
                      /\ \A h \in good : k <= h
                      /\ {call.value} = FieldRecords(call.rk, call.text, keys[k])
               ELSE IF others # {} THEN call.value \in others
               ELSE call.value = NotExtracted

\* an unknown key first and the known key "data" second, both validating:
\* the records under "data" were taken
C25_Witness ==
    /\ call.fn = "tryExtract" /\ call.returned
    /\ call.rk = "segment"
    /\ call.text = <<"{", "items:", "[", "{", "text:", "'hi'", "}", "]",
                          "data:", "[", "{", "text:", "'yo'", "}", "]", "}">>
    /\ call.value.ok
    /\ call.value.recs[1].Text = "yo"

\* the number of backslashes in a row that end at position i of s
RECURSIVE BackslashesUpTo(_, _)
BackslashesUpTo(s, i) ==
    IF i < 1 \/ CharAt(s, i) # "\\" THEN 0 ELSE 1 + BackslashesUpTo(s, i - 1)

\* the backslash at position i of s begins an escape: it is not the second
\* character of the escape that the backslash before it begins
BeginsEscape(s, i) ==
    i >= 1 /\ CharAt(s, i) = "\\" /\ BackslashesUpTo(s, i - 1) % 2 = 0

\* s with the character at each position i replaced by Piece(i)
Rewritten(s, Piece(_)) == Join([i \in 1..Len(s) |-> Piece(i)], "")

\* fixInvalidEscapes has returned
Fixed == call.fn = "fixInvalidEscapes" /\ call.returned

(* C26 as stated: every backslash followed by a character outside the      *)
(* JSON escape set is doubled and everything else is left as it is.        *)
C26_EveryBackslashDoubled ==
    Fixed
        => LET s == call.text
               Piece(i) == IF /\ CharAt(s, i) = "\\" /\ i < Len(s)
                              /\ CharAt(s, i + 1) \notin JSONEscapes
                           THEN "\\\\" ELSE CharAt(s, i)
           IN  call.value.fixed = Rewritten(s, Piece)

(* C26, amended: every backslash that begins an escape (it is not itself   *)
(* escaped by the backslash before it) and is followed by a character      *)
(* outside the JSON escape set is doubled, and everything else is left as  *)
(* it is; the decoder then accepts the text unless it ends in a backslash  *)
(* that begins an escape, and gives each such backslash and the character  *)
(* after it back as they were written, so \N comes out as backslash, N.    *)
C26_InvalidEscapesDoubled ==
    Fixed
        => LET s == call.text
               invalid(i) == /\ BeginsEscape(s, i) /\ i < Len(s)
                             /\ CharAt(s, i + 1) \notin JSONEscapes
               Piece(i) == IF invalid(i) THEN "\\\\" ELSE CharAt(s, i)
               Plain(i) == IF invalid(i) THEN "\\"
                           ELSE IF BeginsEscape(s, i) THEN ""
                           ELSE IF i > 1 /\ BeginsEscape(s, i - 1) /\ ~invalid(i - 1)
                           THEN Unescaped(CharAt(s, i))
                           ELSE CharAt(s, i)
           IN  /\ call.value.fixed = Rewritten(s, Piece)
               /\ call.value.decoded.ok <=> ~BeginsEscape(s, Len(s))
               /\ call.value.decoded.ok
                     => call.value.decoded.str = Rewritten(s, Plain)

\* an escaped backslash was left alone, and the marker \N after it came
\* out as backslash, N
C26_Witness ==
    /\ Fixed
    /\ call.text = "\\\\\\N"
    /\ call.value.fixed = "\\\\\\\\N"
    /\ call.value.decoded = [ok |-> TRUE, str |-> "\\\\N"]

\* the command is running or has returned
InCmd == call.fn = "runTranslate"

(* C22: the translate command writes the output file only after the        *)
(* translator has returned without error and every result has been gone    *)
(* through; if the translator returns an error the command returns that    *)
(* error, wrapped, and has not called Write; a result whose index is out   *)
(* of range is skipped, changes nothing, and the command goes on to write. *)
C22_WriteAfterTranslation ==
    /\ [](InCmd =>
            /\ written.exists
                  => /\ call.pc = "done"
                     /\ call.translateErr = Nil
                     /\ call.next > Len(call.results)
            /\ (call.pc = "done" /\ call.translateErr # Nil)
                  => /\ ~written.exists
                     /\ call.err = CmdError("translation failed", call.translateErr)
            /\ (call.pc = "done" /\ call.translateErr = Nil /\ Len(call.sub) > 0)
                  => written.exists /\ call.err = Nil)
    /\ [][(/\ InCmd /\ call.pc = "apply" /\ call.next <= Len(call.results)
           /\ \/ call.results[call.next].Index < 0
              \/ call.results[call.next].Index >= Len(call.sub))
             => /\ subFile' = subFile
                /\ call'.pc = "apply"
                /\ call'.next = call.next + 1]_vars

\* the file was written after a result with an index past the end was
\* skipped and the result after it was applied
C22_Witness ==
    /\ InCmd /\ call.pc = "done"
    /\ written.exists
    /\ Len(call.results) = 2
    /\ call.results[1].Index = Len(call.sub)
    /\ call.results[2].Index = 0
    /\ subFile.format = "srt"
    /\ subFile.entries[1].Text = call.results[2].Text

(* C29: the entries Subtitle() returned are a snapshot: no SetText made    *)
(* after it changes their texts, whatever the format.                      *)
C29_SnapshotUnchanged ==
    InCmd => call.sub = call.obtained

\* a section header, as the parser takes it
IsHeader(line) == HasPrefix(TrimSpace(line), "[") /\ HasSuffix(TrimSpace(line), "]")

\* the numbers of the lines inside an [Events] section
EventLines(bytes) ==
    LET lines == ScanLines(bytes)
    IN  {k \in 1..Len(lines) :
            /\ ~IsHeader(lines[k])
            /\ \E j \in 1..(k - 1) :
                  /\ ToLower(TrimSpace(lines[j])) = "[events]"
                  /\ \A i \in (j + 1)..(k - 1) : ~IsHeader(lines[i])}

\* the numbers of the Format lines inside [Events]
EventFormatLines(bytes) ==
    {k \in EventLines(bytes) :
        HasPrefix(TrimSpace(ScanLines(bytes)[k]), "Format:")}

\* a Format line names a column Text, in any case
NamesText(line) ==
    LET columns == Split(TrimPrefix(TrimSpace(line), "Format:"), ",")
    IN  \E i \in 1..Len(columns) : ToLower(TrimSpace(columns[i])) = "text"

\* [Events] has no Format line
NoEventsFormat(bytes) == EventFormatLines(bytes) = {}

\* a Format line of [Events] has no column named Text
FormatWithoutText(bytes) ==
    \E k \in EventFormatLines(bytes) : ~NamesText(ScanLines(bytes)[k])

\* a Dialogue line of [Events] stands before every Format line
DialogueBeforeFormat(bytes) ==
    \E k \in EventLines(bytes) :
        /\ HasPrefix(TrimSpace(ScanLines(bytes)[k]), "Dialogue:")
        /\ \A j \in EventFormatLines(bytes) : k < j

(* C31: Open of an ASS file returns an error and no document when          *)
(* [Events] has no Format line, when a Format line of [Events] has no      *)
(* column named Text, and when a Dialogue line stands in [Events] before   *)
(* the Format line.                                                        *)
C31_FormatRequired ==
    (/\ Opened
     /\ FormatOf(call.path) = "ass"
     /\ \/ NoEventsFormat(call.bytes)
        \/ FormatWithoutText(call.bytes)
        \/ DialogueBeforeFormat(call.bytes))
        => /\ call.value.err.tag = "error" \/ call.value.err.tag = "wrapped"
           /\ call.value.file = NoFile

\* the same for the files whose [Events] has at most one Format line
C31_OneFormatLine ==
    (/\ Opened
     /\ FormatOf(call.path) = "ass"
     /\ Cardinality(EventFormatLines(call.bytes)) <= 1
     /\ \/ NoEventsFormat(call.bytes)
        \/ FormatWithoutText(call.bytes)
        \/ DialogueBeforeFormat(call.bytes))
        => /\ call.value.err.tag = "error" \/ call.value.err.tag = "wrapped"
           /\ call.value.file = NoFile

\* a step of the calling goroutine's loop "for result := range resultChan":
\* it takes the head of resultChan, and no worker, nor the feeder, nor the
\* goroutine that closes resultChan moves in it
CollectorStep ==
    /\ phase = "collect" /\ phase' = "collect"
    /\ resultChan # <<>> /\ resultChan' = Tail(resultChan)
    /\ UNCHANGED <<workers, fed, workChanClosed, resultChanClosed>>

\* a worker is inside t.TranscribeChunk / t.translateBatch
InProviderCall == CountAt("calling") > 0

(* C32: in a concurrent run the results slice and firstErr are written by  *)
(* the calling goroutine's collection loop alone, one received result at a *)
(* time: no step of a worker, of the feeder or of the closing goroutine    *)
(* changes them, the workers only send on resultChan; and no worker that   *)
(* is inside a provider call keeps the collector from taking the next      *)
(* result.                                                                 *)
C32_SingleWriter ==
    /\ [][(results' # results \/ firstErr' # firstErr) => CollectorStep]_vars
    /\ [][\A ws \in BagToSet(workers) :
             WorkerSend(ws) => /\ resultChan' = Append(resultChan, ws.res)
                               /\ UNCHANGED <<results, firstErr>>]_vars
    /\ []((phase = "collect" /\ resultChan # <<>> /\ InProviderCall)
             => ENABLED Collect)

\* the collector has stored a result and an error while a worker is inside
\* a provider call
C32_Witness ==
    /\ phase = "collect"
    /\ InProviderCall
    /\ results # <<>>
    /\ firstErr # Nil

\* the segments of a response whose text is more than white space, with
\* the text trimmed
TrimmedNonBlank(segs) ==
    LET NonBlank(seg) == TrimSpace(seg.Text) # ""
        kept == SelectSeq(segs, NonBlank)
    IN  [i \in 1..Len(kept) |->
            [StartTime |-> kept[i].Start, EndTime |-> kept[i].End,
             Text |-> TrimSpace(kept[i].Text)]]

(* C33: parseVerboseJSONResponse returns no segment with empty text.  For  *)
(* a response with segments it returns those whose text is not blank, in   *)
(* order, with the text trimmed; for a response with text and no segments  *)
(* one segment from 0 to the response's duration, or to the fallback       *)
(* duration when that is not positive; for an empty response, a response   *)
(* that is no JSON and a response with neither segments nor text an error. *)
C33_NoEmptySegment ==
    (call.fn = "parseVerboseJSONResponse" /\ call.returned)
        => LET raw == call.rawJSON
               v == call.value
           IN  /\ \A i \in 1..Len(v.segments) : v.segments[i].Text # ""
               /\ raw.tag \in {"empty", "invalid"}
                     => v.err # Nil /\ v.segments = <<>>
               /\ (raw.tag = "object" /\ raw.Segments # <<>>)
                     => /\ v.err = Nil
                        /\ v.segments = TrimmedNonBlank(raw.Segments)
               /\ (raw.tag = "object" /\ raw.Segments = <<>> /\ raw.Text # "")
                     => /\ v.err = Nil
                        /\ Len(v.segments) = 1
                        /\ v.segments[1].StartTime = 0
                        /\ v.segments[1].EndTime =
                              IF raw.Duration > 0 THEN raw.Duration
                              ELSE call.fallbackDuration
               /\ (raw.tag = "object" /\ raw.Segments = <<>> /\ raw.Text = "")
                     => v.err # Nil /\ v.segments = <<>>

\* the run returned a result and no error
ReturnedOk == Returned /\ ret.err = Nil

\* the result holds the output of every unit exactly once
CompleteResult ==
    /\ \A p \in Units : Succeeded(p)
    /\ IF kind = "transcribe"
       THEN ret.result.Segments = ConcatAscending(Units)
       ELSE /\ Len(ret.result) = Len(items)
            /\ \A i \in 1..Len(items) :
                  Cardinality({k \in 1..Len(ret.result) :
                                  ret.result[k].Index = items[i].Index}) = 1

(* C34: when a run returns no error and the caller did not cancel, every   *)
(* unit was handed over and its provider call was begun exactly once, the  *)
(* collector received exactly one result per unit, and the result holds    *)
(* the output of every unit exactly once; a translation returns as many    *)
(* results as there are items.                                             *)
C34_EveryUnitOnce ==
    (ReturnedOk /\ ~callerCancelled)
        => /\ \A p \in Units : calls[p] = 1
           /\ spawned > 0
                 => /\ fed = NUnits
                    /\ Len(received) = NUnits
                    /\ \A p \in Units :
                          Cardinality({k \in 1..Len(received) :
                                 received[k].Index = UnitIndex(p)}) = 1
           /\ CompleteResult

\* a translation of three batches by two workers, the second batch
\* received first
C34_Witness ==
    /\ ReturnedOk /\ ~callerCancelled
    /\ kind = "translate" /\ NUnits = 3 /\ spawned = 2
    /\ Len(ret.result) = 3
    /\ received[1].Index = 1

(* C35: a run whose context the caller cancelled while it was in progress  *)
(* does not return a nil error with a result that lacks the output of a    *)
(* unit: it returns an error or the complete result.                       *)
C35_NoPartialOnCancel ==
    (Returned /\ callerCancelled) => (ret.err # Nil \/ CompleteResult)

\* this step is a SetText at a position of the document with the text
\* that Subtitle() returned for the position
WroteBack ==
    /\ nops' = nops + 1
    /\ lastOp'.op = "SetText" /\ lastOp'.err = Nil
    /\ lastOp'.text = Subtitle(subFile)[lastOp'.index + 1].Text

(* C36: in an ASS document a SetText that writes back the text Subtitle()  *)
(* returned for the position leaves the stored text of the dialogue as it  *)
(* was, and the other dialogues too: the leading tags are not stored a     *)
(* second time.                                                            *)
C36_WriteBackUnchanged ==
    [][(subFile.format = "ass" /\ WroteBack)
          => \A i \in 1..Len(subFile.dialogues) :
                subFile'.dialogues[i].Text = subFile.dialogues[i].Text]_vars

\* the same for the dialogues that begin with no override tag
C36_UntaggedUnchanged ==
    [][(/\ subFile.format = "ass" /\ WroteBack
        /\ subFile.dialogues[lastOp'.index + 1].LeadingTags = "")
          => \A i \in 1..Len(subFile.dialogues) :
                subFile'.dialogues[i].Text = subFile.dialogues[i].Text]_vars

\* the numbers of the lines of the written file that are a Format line or
\* a Dialogue line
FormatAndDialogueLines(bytes) ==
    LET lines == ScanLines(bytes)
    IN  {k \in 1..Len(lines) :
            \/ HasPrefix(TrimSpace(lines[k]), "Format:")
            \/ HasPrefix(TrimSpace(lines[k]), "Dialogue:")}

\* the headers of the sections that follow [Events] in the file are
\* written after the Format line and the Dialogue lines
LaterSectionsStay(input, output) ==
    LET lines == ScanLines(input)
        outLines == ScanLines(output)
    IN  \A h \in 1..Len(lines) :
           (/\ IsHeader(lines[h])
            /\ \E e \in 1..(h - 1) : ToLower(TrimSpace(lines[e])) = "[events]")
              => \E w \in 1..Len(outLines) :
                    /\ outLines[w] = lines[h]
                    /\ \A k \in FormatAndDialogueLines(output) : k < w

\* an event line that is no Dialogue line and stands between the a-th and
\* the next Dialogue line of the file stands between the a-th and the
\* next Dialogue line of the output
CommentsStay(input, output) ==
    LET lines == ScanLines(input)
        outLines == ScanLines(output)
    IN  \A c \in EventLines(input) \ DialogueLines(input) :
           LET a == Cardinality({d \in DialogueLines(input) : d < c})
           IN  (/\ a >= 1
                /\ a < Cardinality(DialogueLines(input))
                /\ \A k \in Nth(DialogueLines(input), a)..c :
                      k \in EventLines(input))
                 => \E w \in 1..Len(outLines) :
                       /\ outLines[w] = lines[c]
                       /\ Nth(DialogueLines(output), a) < w
                       /\ w < Nth(DialogueLines(output), a + 1)

(* C37: ASS Write keeps the order of the lines of the file: a section that *)
(* follows [Events] is written after the Format line and the Dialogue      *)
(* lines, and an event line that is no Dialogue line and stands between    *)
(* two Dialogue lines is written between the same two.                     *)
C37_LineOrderKept ==
    (subFile.format = "ass" /\ Called("Write"))
        => /\ LaterSectionsStay(opened, written.bytes)
           /\ CommentsStay(opened, written.bytes)

(* C38: recovery from a decoded object is deterministic: the records a     *)
(* call returned are the only ones a call on the same object can return,   *)
(* also when several fields under unknown keys validate.                   *)
C38_Deterministic ==
    (call.fn = "tryExtract" /\ call.returned)
        => \A v \in tryExtract(call.rk, DecodeValue(call.text, 1).val) :
              v = call.value

\* the same for the objects with at most one field that validates under a
\* key the record kind does not know
C38_OneUnknownField ==
    (/\ call.fn = "tryExtract" /\ call.returned
     /\ LET raw == DecodeValue(call.text, 1).val
        IN  Cardinality({k \in FieldKeys :
                            /\ \A i \in 1..Len(WrapperKeys(call.rk)) :
                                  WrapperKeys(call.rk)[i] # k
                            /\ HasMember(raw, k)
                            /\ GoodField(call.rk, Member(raw, k))}) <= 1)
        => \A v \in tryExtract(call.rk, DecodeValue(call.text, 1).val) :
              v = call.value

\* the words of the entries of a group, in order
RECURSIVE WordsOf(_)
WordsOf(entries) ==
    IF entries = <<>> THEN <<>>
    ELSE Fields(Head(entries).Text) \o WordsOf(Tail(entries))

\* the group of entries is the segment cut into pieces: every word in
\* order, from the segment's start to its end without a gap
PiecesOf(group, seg) ==
    /\ WordsOf(group) = Fields(seg.Text)
    /\ group[1].StartTime = seg.StartTime
    /\ group[Len(group)].EndTime = seg.EndTime
    /\ \A j \in 2..Len(group) : group[j].StartTime = group[j - 1].EndTime
    /\ \A j \in 1..Len(group) : Fields(group[j].Text) # <<>>

\* the entries are the pieces of the segments that are not blank, one
\* segment after the other
RECURSIVE PiecesOfAll(_, _)
PiecesOfAll(entries, segments) ==
    IF segments = <<>> THEN entries = <<>>
    ELSE IF TrimSpace(Head(segments).Text) = ""
    THEN PiecesOfAll(entries, Tail(segments))
    ELSE \E m \in 1..Len(entries) :
            /\ PiecesOf(SubSeq(entries, 1, m), Head(segments))
            /\ PiecesOfAll(SubSeq(entries, m + 1, Len(entries)),
                           Tail(segments))

(* C39: the entries Generate returns are numbered 1, 2, ..., n in order;   *)
(* the segments whose trimmed text is empty give no entry; the entries of  *)
(* every other segment hold all its words in order, the first starting at  *)
(* the segment's start, each later one where the one before it ends, the   *)
(* last ending at the segment's end.                                       *)
C39_GenerateIndicesAndPieces ==
    (call.fn = "Generate" /\ call.returned)
        => /\ \A i \in 1..Len(call.value) : call.value[i].Index = i
           /\ PiecesOfAll(call.value, call.segments)

\* a blank segment is skipped and a segment of four words and fifteen
\* seconds, for which three pieces are planned, comes out in two pieces,
\* the second ending at the segment's end
C39_Witness ==
    /\ call.fn = "Generate" /\ call.returned
    /\ call.segments = <<[StartTime |-> 0, EndTime |-> 2000, Text |-> "  "],
                         [StartTime |-> 1000, EndTime |-> 16000,
                          Text |-> " a b  c d "]>>
    /\ call.value = <<Entry(1, 1000, 6000, "a b"), Entry(2, 6000, 16000, "c d")>>

\* position i of s begins a valid JSON escape
ValidEscapeAt(s, i) ==
    BeginsEscape(s, i) /\ i < Len(s) /\ CharAt(s, i + 1) \in JSONEscapes

\* the number of invalid escapes of s that begin before position i
InvalidBefore(s, i) ==
    Cardinality({j \in 1..(i - 1) :
                    /\ BeginsEscape(s, j) /\ j < Len(s)
                    /\ CharAt(s, j + 1) \notin JSONEscapes})

(* C40: fixInvalidEscapes applied to its own result returns that result,   *)
(* and every valid JSON escape of the text stands in the result as it was  *)
(* written, moved right by one place for every invalid escape before it,   *)
(* and is a valid escape there.                                            *)
C40_IdempotentKeepsValid ==
    Fixed
        => /\ call.value.again = call.value.fixed
           /\ \A i \in 1..Len(call.text) :
                 ValidEscapeAt(call.text, i)
                    => LET o == i + InvalidBefore(call.text, i)
                       IN  /\ Slice(call.value.fixed, o, o + 1)
                                = Slice(call.text, i, i + 1)
                           /\ ValidEscapeAt(call.value.fixed, o)

\* the invalid escape \N was fixed before the valid escape \n, which was
\* kept, and a second application changed nothing
C40_Witness ==
    /\ Fixed
    /\ call.text = "\\N\\n"
    /\ call.value.fixed = "\\\\N\\n"
    /\ call.value.again = "\\\\N\\n"

====
